---- MODULE Spec2Model ----
(***************************************************************************)
(* Model of the prisma-kysely-zod generator: the @zod annotation parser,   *)
(* the field schema emitter, the brand registry, the three-layer schema    *)
(* generator and the CRUD schema generator.                                *)
(*                                                                         *)
(* Text is modelled as a sequence of tokens.  A token is either one of the *)
(* punctuation characters the code looks at ( . ( ) / \ " ' { } : , space  *)
(* newline ), one of the markers "@zod." and "/// ", or a maximal run of   *)
(* word characters (\w+) such as "cuid" or "3".  Every scan of the source  *)
(* that walks a string character by character looks only at punctuation,   *)
(* so walking the tokens visits the same decisions in the same order.      *)
(***************************************************************************)
EXTENDS Integers, Sequences, FiniteSets, TLC

VARIABLES
    documentation,  \* parseZodAnnotations: the documentation argument
    parts,          \* parseZodAnnotations: the segments of the chain (line 37)
    zodResult,      \* parseZodAnnotations: the value returned
    pcParse         \* parseZodAnnotations: position in the function

parseVars == <<documentation, parts, zodResult, pcParse>>

\* one call of generateZodField: its arguments, the expression and the lines of the leading
\* comment it wrote, its position
VARIABLES fieldArgs, emitted, comment, pcField

fieldVars == <<fieldArgs, emitted, comment, pcField>>

\* one run of the generator: the models and the options it is given, the base schemas, the
\* brand map of the registry generator, the files written under brands/, layers/ and crud/,
\* the calls made on the file system and the directories whose writes fail,
\* what the run wrote to the console, and the phase the run is in
VARIABLES datamodel, runConfig, zodSchemas, brands, brandedFile, layerFiles, crudFiles, console,
          fsLog, faults, pcRun

runVars == <<datamodel, runConfig, zodSchemas, brands, brandedFile, layerFiles, crudFiles, console,
             fsLog, faults, pcRun>>

vars == <<parseVars, fieldVars, runVars>>

----------------------------------------------------------------------------
(* Tokens *)

DQ == "\""
SQ == "'"
BSL == "\\"
NL == "\n"
SP == " "
ZodMarker == "@zod."
TripleSlash == "/// "

Quotes == {DQ, SQ}

NonWord == {".", "(", ")", "/", BSL, DQ, SQ, "{", "}", "[", "]", ":", ",", "|", "-",
            SP, NL, ZodMarker, TripleSlash, "@kyselyType", "@crud.omit",
            "@crud.create.omit", "@crud.update.omit", "@crud.update.immutable",
            "@crud.update.refine"}

\* \w+ : a token that is a run of word characters
IsWord(t) == t \notin NonWord

\* a field without documentation: undefined and "" are both falsy wherever the
\* source tests the documentation
NoDoc == <<>>

\* the value null
Null == [kind |-> "null"]

\* an optional value: undefined (no match, or a group that took no part), or v
None == [some |-> FALSE]

Some(v) == [some |-> TRUE, val |-> v]

----------------------------------------------------------------------------
(* Helpers on token sequences *)

Contains(s, t) == \E k \in 1..Len(s) : s[k] = t

\* String.prototype.trim
RECURSIVE TrimLeft(_)
TrimLeft(s) == IF s # <<>> /\ Head(s) \in {SP, NL} THEN TrimLeft(Tail(s)) ELSE s

RECURSIVE TrimRight(_)
TrimRight(s) ==
    IF s # <<>> /\ s[Len(s)] \in {SP, NL} THEN TrimRight(SubSeq(s, 1, Len(s) - 1)) ELSE s

Trim(s) == TrimRight(TrimLeft(s))

\* the end of the line that holds position p: the last position before the next newline
LineEnd(s, p) ==
    IF \E k \in p..Len(s) : s[k] = NL
    THEN (CHOOSE k \in p..Len(s) : s[k] = NL /\ \A j \in p..(k - 1) : s[j] # NL) - 1
    ELSE Len(s)

\* Array.prototype.join('') on a sequence of token sequences
RECURSIVE Flatten(_)
Flatten(ss) == IF ss = <<>> THEN <<>> ELSE Head(ss) \o Flatten(Tail(ss))

\* /["']([^"']+)["']/ : the first quoted, non-empty, quote-free run of s, or Undefined
QuotedMatch(s) ==
    LET Opens == {j \in 1..Len(s) : /\ s[j] \in Quotes
                                    /\ \E k \in (j + 2)..Len(s) :
                                          /\ s[k] \in Quotes
                                          /\ \A m \in (j + 1)..(k - 1) : s[m] \notin Quotes}
    IN  IF Opens = {} THEN None
        ELSE LET j == CHOOSE x \in Opens : \A y \in Opens : x <= y
                 k == CHOOSE x \in (j + 2)..Len(s) :
                          /\ s[x] \in Quotes
                          /\ \A m \in (j + 1)..(x - 1) : s[m] \notin Quotes
             IN  Some(SubSeq(s, j + 1, k - 1))

\* the first position from p on that holds no space (\s*), Len(s) + 1 if none
SkipSpaces(s, p) ==
    IF \E q \in p..Len(s) : s[q] # SP
    THEN CHOOSE q \in p..Len(s) : s[q] # SP /\ \A r \in p..(q - 1) : s[r] = SP
    ELSE Len(s) + 1

----------------------------------------------------------------------------
(* parseZodAnnotations, src/src/helpers/parseZodAnnotations.ts *)

\* lines 20-28: the text after the first "/// @zod." (or, failing that, the first
\* "@zod.") up to the end of its line, trimmed; None when neither matches.
\* (.+) needs one character that is not a line terminator.
ZodMatch(doc) ==
    LET Hits1 == {p \in 1..Len(doc) : /\ doc[p] = TripleSlash
                                      /\ p + 2 <= Len(doc)
                                      /\ doc[p + 1] = ZodMarker
                                      /\ doc[p + 2] # NL}
        Hits2 == {p \in 1..Len(doc) : /\ doc[p] = ZodMarker
                                      /\ p + 1 <= Len(doc)
                                      /\ doc[p + 1] # NL}
        First(H) == CHOOSE p \in H : \A q \in H : p <= q
    IN  IF Hits1 # {}
        THEN Some(Trim(SubSeq(doc, First(Hits1) + 2, LineEnd(doc, First(Hits1) + 2))))
        ELSE IF Hits2 # {}
        THEN Some(Trim(SubSeq(doc, First(Hits2) + 1, LineEnd(doc, First(Hits2) + 1))))
        ELSE None

\* lines 37-40: the state of the splitting loop before the first character
SplitInit == [parts |-> <<>>, current |-> <<>>, inRegex |-> FALSE, parenDepth |-> 0]

\* lines 42-61: the splitting loop from character i on
RECURSIVE SplitLoop(_, _, _)
SplitLoop(annotation, i, st) ==
    IF i > Len(annotation) THEN st
    ELSE
        LET char == annotation[i]
            prev == IF i > 1 THEN annotation[i - 1] ELSE "undefined"
            inRegex1 == IF char = "/" /\ prev # BSL THEN ~st.inRegex ELSE st.inRegex
            depth1 == IF inRegex1 THEN st.parenDepth
                      ELSE IF char = "(" THEN st.parenDepth + 1
                      ELSE IF char = ")" THEN st.parenDepth - 1
                      ELSE st.parenDepth
        IN  IF ~inRegex1 /\ char = "." /\ depth1 = 0
            THEN SplitLoop(annotation, i + 1,
                    [parts |-> IF st.current # <<>> THEN Append(st.parts, st.current)
                               ELSE st.parts,
                     current |-> <<>>, inRegex |-> inRegex1, parenDepth |-> depth1])
            ELSE SplitLoop(annotation, i + 1,
                    [parts |-> st.parts, current |-> Append(st.current, char),
                     inRegex |-> inRegex1, parenDepth |-> depth1])

\* the splitting loop with the regex-literal tracking left out
RECURSIVE SplitLoopNoRegex(_, _, _)
SplitLoopNoRegex(annotation, i, st) ==
    IF i > Len(annotation) THEN st
    ELSE
        LET char == annotation[i]
            depth1 == IF char = "(" THEN st.parenDepth + 1
                      ELSE IF char = ")" THEN st.parenDepth - 1
                      ELSE st.parenDepth
        IN  IF char = "." /\ depth1 = 0
            THEN SplitLoopNoRegex(annotation, i + 1,
                    [parts |-> IF st.current # <<>> THEN Append(st.parts, st.current)
                               ELSE st.parts,
                     current |-> <<>>, inRegex |-> FALSE, parenDepth |-> depth1])
            ELSE SplitLoopNoRegex(annotation, i + 1,
                    [parts |-> st.parts, current |-> Append(st.current, char),
                     inRegex |-> FALSE, parenDepth |-> depth1])

SplitPartsNoRegex(annotation) ==
    LET st == SplitLoopNoRegex(annotation, 1, SplitInit)
    IN  IF st.current # <<>> THEN Append(st.parts, st.current) ELSE st.parts

\* lines 37-63: the segments of the chain
SplitParts(annotation) ==
    LET st == SplitLoop(annotation, 1, SplitInit)
    IN  IF st.current # <<>> THEN Append(st.parts, st.current) ELSE st.parts

\* line 67: the segments that may stand first in place of a type name
TopLevelFirst == {"email", "url", "uuid", "cuid", "cuid2", "ulid", "emoji", "base64",
                  "ipv4", "ipv6", "datetime", "date"}

\* line 72: the type names that are skipped when they stand first
TypePrefix == {"string", "number", "boolean", "date", "bigint", "array", "object"}

\* lines 66-67
IsTopLevelValidator(ps) ==
    Len(ps) > 0 /\ Len(ps[1]) = 1 /\ ps[1][1] \in TopLevelFirst

\* the length of the longest prefix of part made of word tokens (\w+)
WordPrefixLen(part) ==
    IF \E k \in 1..Len(part) : ~IsWord(part[k])
    THEN (CHOOSE k \in 1..Len(part) :
             ~IsWord(part[k]) /\ \A j \in 1..(k - 1) : IsWord(part[j])) - 1
    ELSE Len(part)

\* line 77: part.match(/^(\w+)(?:\((.*)\))?$/)
ValidatorMatch(part) ==
    LET k == WordPrefixLen(part)
        n == Len(part)
    IN  IF k = 0 THEN [matched |-> FALSE]
        ELSE IF k = n
        THEN [matched |-> TRUE, validatorName |-> part, args |-> None]
        ELSE IF part[k + 1] = "(" /\ part[n] = ")" /\ n >= k + 2
        THEN [matched |-> TRUE, validatorName |-> SubSeq(part, 1, k),
              args |-> Some(SubSeq(part, k + 2, n - 1))]
        ELSE [matched |-> FALSE]

\* line 129: args.match(/message\s*:\s*["']([^"']+)["']/)
MessageMatch(args) ==
    LET Ok(p) ==
            LET c == SkipSpaces(args, p + 1)
                q == SkipSpaces(args, c + 1)
            IN  /\ args[p] = "message"
                /\ c <= Len(args) /\ args[c] = ":"
                /\ q <= Len(args) /\ args[q] \in Quotes
                /\ q + 1 <= Len(args) /\ args[q + 1] \notin Quotes
                /\ \E k \in (q + 2)..Len(args) : args[k] \in Quotes
        Hits == {p \in 1..Len(args) : Ok(p)}
    IN  IF Hits = {} THEN None
        ELSE LET p == CHOOSE x \in Hits : \A y \in Hits : x <= y
                 q == SkipSpaces(args, SkipSpaces(args, p + 1) + 1)
                 k == CHOOSE x \in (q + 2)..Len(args) :
                          args[x] \in Quotes /\ \A m \in (q + 1)..(x - 1) : args[m] \notin Quotes
             IN  Some(SubSeq(args, q + 1, k - 1))

\* the flags a regex literal may carry ([gimuy]*), as word tokens
FlagTokens == {"g", "i", "m", "u", "y", "gi"}

\* line 142: args.match(/^(\/[^\/]+\/[gimuy]*)\s*(?:,\s*["']([^"']+)["'])?$/)
RegexArgMatch(args) ==
    LET n == Len(args)
        Closes == {e \in 3..n : args[e] = "/" /\ \A m \in 2..(e - 1) : args[m] # "/"}
    IN  IF n = 0 \/ args[1] # "/" \/ Closes = {} THEN [matched |-> FALSE]
        ELSE
            LET e == CHOOSE x \in Closes : TRUE
                f == IF e + 1 <= n /\ args[e + 1] \in FlagTokens THEN e + 1 ELSE e
                r == SkipSpaces(args, f + 1)
                q == SkipSpaces(args, r + 1)
            IN  IF r > n
                THEN [matched |-> TRUE, pattern |-> SubSeq(args, 1, f), errorMessage |-> None]
                ELSE IF /\ args[r] = ","
                        /\ q + 2 <= n
                        /\ args[q] \in Quotes
                        /\ args[n] \in Quotes
                        /\ \A m \in (q + 1)..(n - 1) : args[m] \notin Quotes
                THEN [matched |-> TRUE, pattern |-> SubSeq(args, 1, f),
                      errorMessage |-> Some(SubSeq(args, q + 1, n - 1))]
                ELSE [matched |-> FALSE]

\* String.prototype.replace(/xy/g, r): every x followed by y becomes r, left to right
RECURSIVE ReplacePair(_, _, _, _)
ReplacePair(s, x, y, r) ==
    IF s = <<>> THEN <<>>
    ELSE IF Len(s) >= 2 /\ s[1] = x /\ s[2] = y
    THEN <<r>> \o ReplacePair(SubSeq(s, 3, Len(s)), x, y, r)
    ELSE <<Head(s)>> \o ReplacePair(Tail(s), x, y, r)

\* lines 108-114: the escape sequences of a description, one pass after the other.
\* The letters of \n \r \t are inside word tokens: those three passes change nothing here.
Unescape(s) ==
    ReplacePair(ReplacePair(ReplacePair(s, BSL, DQ, DQ), BSL, SQ, SQ), BSL, BSL, BSL)

\* lines 29-33: the record before any segment is processed
EmptyAnnotation ==
    [kind |-> "annotation", validators |-> <<>>, customErrors |-> {},
     brand |-> None, description |-> None]

\* `.${validatorName}(${args})`
Call(validatorName, args) == <<".">> \o validatorName \o <<"(">> \o args \o <<")">>

\* a parser that gives up on a segment that is neither name nor name(args)
RawFallbackThrows(result, part) == [result EXCEPT !.kind = "error"]

\* lines 78-81: a segment that is neither name nor name(args) is pushed as it is
RawFallback(result, part) ==
    [result EXCEPT !.validators = Append(@, part)]

\* lines 70-161: the forEach callback for one segment
ProcessPart(result, part, index, isTopLevelValidator) ==
    LET vm == ValidatorMatch(part)
        push(v) == [result EXCEPT !.validators = Append(@, v)]
    IN  IF index = 0 /\ ~isTopLevelValidator /\ Len(part) = 1 /\ part[1] \in TypePrefix
        THEN result
        ELSE IF ~vm.matched THEN RawFallback(result, part)
        ELSE IF vm.validatorName = <<"brand">>
        THEN LET bm == IF vm.args.some THEN QuotedMatch(vm.args.val) ELSE None
             IN  IF bm.some
                 THEN [result EXCEPT !.brand = Some(bm.val),
                                     !.validators = Append(@, Call(<<"brand">>, <<DQ>> \o bm.val \o <<DQ>>))]
                 ELSE result
        ELSE IF vm.validatorName = <<"describe">>
        THEN IF /\ vm.args.some
                /\ Len(vm.args.val) >= 2
                /\ vm.args.val[1] \in Quotes
                /\ vm.args.val[Len(vm.args.val)] \in Quotes
             THEN [result EXCEPT !.description =
                      Some(Unescape(SubSeq(vm.args.val, 2, Len(vm.args.val) - 1)))]
             ELSE result
        ELSE IF vm.args.some /\ vm.args.val # <<>>
        THEN LET args == vm.args.val
             IN  IF Contains(args, "{") /\ Contains(args, "}")
                 THEN LET mm == MessageMatch(args)
                      IN  IF mm.some
                          THEN [result EXCEPT
                                  !.customErrors =
                                      {c \in @ : c[1] # vm.validatorName}
                                          \cup {<<vm.validatorName, mm.val>>},
                                  !.validators = Append(@,
                                      Call(vm.validatorName,
                                           <<"{", SP, "message", ":", SP, DQ>> \o mm.val
                                               \o <<DQ, SP, "}">>))]
                          ELSE push(Call(vm.validatorName, args))
                 ELSE IF Contains(args, "/") /\ vm.validatorName = <<"regex">>
                 THEN LET rm == RegexArgMatch(args)
                      IN  IF rm.matched
                          THEN IF rm.errorMessage.some
                               THEN push(Call(<<"regex">>,
                                        rm.pattern \o <<",", SP, DQ>> \o rm.errorMessage.val
                                            \o <<DQ>>))
                               ELSE push(Call(<<"regex">>, rm.pattern))
                          ELSE push(Call(vm.validatorName, args))
                 ELSE push(Call(vm.validatorName, args))
        ELSE push(Call(vm.validatorName, <<>>))

\* lines 70-161: parts.forEach from segment k on
RECURSIVE ProcessParts(_, _, _, _)
ProcessParts(result, ps, k, isTop) ==
    IF k > Len(ps) \/ result.kind = "error" THEN result
    ELSE ProcessParts(ProcessPart(result, ps[k], k - 1, isTop), ps, k + 1, isTop)

\* lines 65-163: the record built from the segments
BuildAnnotation(ps) == ProcessParts(EmptyAnnotation, ps, 1, IsTopLevelValidator(ps))

\* lines 17-164
parseZodAnnotations(doc) ==
    IF doc = NoDoc \/ ~ZodMatch(doc).some THEN Null
    ELSE BuildAnnotation(SplitParts(ZodMatch(doc).val))

----------------------------------------------------------------------------
(* getZodMethodForPrismaType, src/unnamed/part_004 *)

Providers == {"sqlite", "mysql", "postgresql", "cockroachdb", "sqlserver"}

ScalarTypes == {"String", "Boolean", "Int", "BigInt", "Float", "Decimal", "DateTime",
                "Json", "Bytes"}

\* lines 23-33
sqliteZodTypeMap ==
    [t \in ScalarTypes |->
        CASE t = "String" -> "string"
          [] t = "Boolean" -> "boolean"
          [] t \in {"Int", "BigInt", "Float", "Decimal"} -> "number"
          [] t = "DateTime" -> "string"
          [] OTHER -> "unknown"]

\* lines 35-45
mysqlZodTypeMap ==
    [t \in ScalarTypes |->
        CASE t \in {"String", "Decimal"} -> "string"
          [] t = "Boolean" -> "boolean"
          [] t \in {"Int", "BigInt", "Float"} -> "number"
          [] OTHER -> "unknown"]

\* lines 47-57
postgresqlZodTypeMap ==
    [t \in ScalarTypes |->
        CASE t \in {"String", "BigInt", "Decimal"} -> "string"
          [] t = "Boolean" -> "boolean"
          [] t \in {"Int", "Float"} -> "number"
          [] OTHER -> "unknown"]

\* lines 59-69
sqlServerZodTypeMap ==
    [t \in ScalarTypes |->
        CASE t \in {"String", "Decimal"} -> "string"
          [] t = "Boolean" -> "boolean"
          [] t \in {"Int", "BigInt", "Float"} -> "number"
          [] OTHER -> "unknown"]

\* lines 71-96: the mapped type, None for a type the map does not hold
getZodTypeFromPrismaType(type, config) ==
    LET typeMap == CASE config.databaseProvider = "sqlite" -> sqliteZodTypeMap
                     [] config.databaseProvider = "mysql" -> mysqlZodTypeMap
                     [] config.databaseProvider \in {"postgresql", "cockroachdb"} ->
                            postgresqlZodTypeMap
                     [] config.databaseProvider = "sqlserver" -> sqlServerZodTypeMap
    IN  IF type \in DOMAIN typeMap THEN Some(typeMap[type]) ELSE None

\* `z.${name}()`
Z(name) == <<"z", ".", name, "(", ")">>

\* lines 99-137
getZodMethodForPrismaType(type, config) ==
    LET zodType == getZodTypeFromPrismaType(type, config)
    IN  IF type = "DateTime"
        THEN IF config.databaseProvider = "sqlite" THEN Z("string")
             ELSE <<"z", ".", "coerce", ".", "date", "(", ")">>
        ELSE IF type = "Json" THEN Z("unknown")
        ELSE IF type = "Bytes" THEN <<"z", ".", "instanceof", "(", "Buffer", ")">>
        ELSE IF type = "Decimal" THEN Z("string")
        ELSE IF zodType.some THEN Z(zodType.val)
        ELSE Z("unknown")

----------------------------------------------------------------------------
(* generateZodField, src/src/helpers/parseZodAnnotations.ts lines 190-400 *)

\* the position of the ')' that closes the '(' at position p, 0 if there is none
ClosingParen(s, p) ==
    LET Bal(k) == Cardinality({j \in p..k : s[j] = "("})
                    - Cardinality({j \in p..k : s[j] = ")"})
        Ends == {k \in p..Len(s) : Bal(k) = 0}
    IN  IF Ends = {} THEN 0 ELSE CHOOSE k \in Ends : \A j \in Ends : k <= j

\* generateTypeOverrideFromDocumentation (imported at line 174, its file is not part of
\* the sources): the text between the parentheses of the first @kyselyType(...), None
\* when the documentation has none.
generateTypeOverrideFromDocumentation(doc) ==
    LET Hits == {p \in 1..(Len(doc) - 1) :
                    doc[p] = "@kyselyType" /\ doc[p + 1] = "(" /\ ClosingParen(doc, p + 1) # 0}
    IN  IF Hits = {} THEN None
        ELSE LET p == CHOOSE x \in Hits : \A y \in Hits : x <= y
             IN  Some(SubSeq(doc, p + 2, ClosingParen(doc, p + 1) - 1))

\* String.prototype.split(sep) on a token sequence
RECURSIVE SplitOn(_, _)
SplitOn(s, sep) ==
    IF ~Contains(s, sep) THEN <<s>>
    ELSE LET k == CHOOSE x \in 1..Len(s) : s[x] = sep /\ \A j \in 1..(x - 1) : s[j] # sep
         IN  <<SubSeq(s, 1, k - 1)>> \o SplitOn(SubSeq(s, k + 1, Len(s)), sep)

\* lines 236 and 269: type.match(/import\(['"]([^'"]+)['"]\)\.(\w+)/), the type name
ImportMatch(m) ==
    LET Ok(p, k) ==
            /\ m[p] = "import" /\ m[p + 1] = "(" /\ m[p + 2] \in Quotes
            /\ k > p + 3 /\ k + 3 <= Len(m)
            /\ \A j \in (p + 3)..(k - 1) : m[j] \notin Quotes
            /\ m[k] \in Quotes /\ m[k + 1] = ")" /\ m[k + 2] = "." /\ IsWord(m[k + 3])
        Hits == {pk \in (1..Len(m)) \X (1..Len(m)) : pk[1] + 2 <= Len(m) /\ Ok(pk[1], pk[2])}
    IN  IF Hits = {} THEN None
        ELSE LET pk == CHOOSE x \in Hits : \A y \in Hits : x[1] <= y[1]
             IN  Some(m[pk[2] + 3])

\* the function handed to z.preprocess at lines 250-255 and 275-280
JsonParseFn == "(val) => { if (typeof val === 'string') { try { return JSON.parse(val); } catch { return val; } } return val; }"

Preprocess(schema) == <<"z", ".", "preprocess", "(", JsonParseFn, ",", SP>> \o schema \o <<")">>

\* Array.prototype.join(', ') on a sequence of token sequences
RECURSIVE JoinComma(_)
JoinComma(ss) ==
    IF ss = <<>> THEN <<>>
    ELSE IF Len(ss) = 1 THEN ss[1]
    ELSE ss[1] \o <<",", SP>> \o JoinComma(Tail(ss))

\* a sequence without the entries that are None, each entry unwrapped
RECURSIVE Somes(_)
Somes(os) ==
    IF os = <<>> THEN <<>>
    ELSE IF Head(os).some THEN <<Head(os).val>> \o Somes(Tail(os))
    ELSE Somes(Tail(os))

\* lines 227-284: the expression of a field with an @kyselyType override
EmitTypeOverride(typeOverride) ==
    LET unionTypes == [k \in 1..Len(SplitOn(typeOverride, "|")) |->
                          Trim(SplitOn(typeOverride, "|")[k])]
        schemas == [k \in 1..Len(Somes([j \in 1..Len(unionTypes) |-> ImportMatch(unionTypes[j])])) |->
                       <<Somes([j \in 1..Len(unionTypes) |-> ImportMatch(unionTypes[j])])[k],
                         "Schema">>]
    IN  IF Len(unionTypes) > 1
        THEN IF Len(schemas) > 0
             THEN IF Len(schemas) = 1 THEN Preprocess(schemas[1])
                  ELSE Preprocess(<<"z", ".", "union", "(", "[">> \o JoinComma(schemas)
                                      \o <<"]", ")">>)
             ELSE Z("unknown")
        ELSE IF ImportMatch(typeOverride).some
             THEN Preprocess(<<ImportMatch(typeOverride).val, "Schema">>)
             ELSE Z("string")

\* lines 291, 299 and 356: the names that replace the base type
TopLevelEmit == {"string", "number", "boolean", "bigint", "date", "enum", "cuid", "cuid2",
                 "uuid", "email", "url", "datetime", "ulid", "emoji", "base64", "ipv4", "ipv6"}

\* lines 291, 299 and 356: /^\.(string|...|ipv6)\(/.test(v)
IsTopLevelEmit(v) == Len(v) >= 3 /\ v[1] = "." /\ v[2] \in TopLevelEmit /\ v[3] = "("

\* String.prototype.includes for a call without arguments: v.includes('.name()')
IncludesCall(v, name) ==
    \E k \in 1..(Len(v) - 3) :
        v[k] = "." /\ v[k + 1] = name /\ v[k + 2] = "(" /\ v[k + 3] = ")"

\* lines 312 and 362: validator.replace(/\.nullable\(\)/g, '.nullish()')
RECURSIVE NullableToNullish(_)
NullableToNullish(v) ==
    IF v = <<>> THEN <<>>
    ELSE IF Len(v) >= 4 /\ v[1] = "." /\ v[2] = "nullable" /\ v[3] = "(" /\ v[4] = ")"
    THEN <<".", "nullish", "(", ")">> \o NullableToNullish(SubSeq(v, 5, Len(v)))
    ELSE <<Head(v)>> \o NullableToNullish(Tail(v))

\* lines 298-315: the forEach over the validators from entry k on; w is what has been
\* written and hasWrittenBase the flag
RECURSIVE EmitTopLevelLoop(_, _, _, _)
EmitTopLevelLoop(validators, k, w, hasWrittenBase) ==
    IF k > Len(validators) THEN [written |-> w, hasWrittenBase |-> hasWrittenBase]
    ELSE LET v == validators[k]
         IN  IF IsTopLevelEmit(v)
             THEN IF v[Len(v)] = ")" /\ IsWord(v[2]) /\ ~hasWrittenBase
                  THEN EmitTopLevelLoop(validators, k + 1,
                          w \o <<"z", ".", v[2], "(">> \o SubSeq(v, 4, Len(v) - 1) \o <<")">>,
                          TRUE)
                  ELSE EmitTopLevelLoop(validators, k + 1, w, hasWrittenBase)
             ELSE IF hasWrittenBase
             THEN EmitTopLevelLoop(validators, k + 1, w \o NullableToNullish(v), TRUE)
             ELSE EmitTopLevelLoop(validators, k + 1, w, hasWrittenBase)

\* line 355: validators.filter(v => !v.match(/^\.(string|...|ipv6)\(/))
RECURSIVE Chainable(_)
Chainable(validators) ==
    IF validators = <<>> THEN <<>>
    ELSE IF IsTopLevelEmit(Head(validators)) THEN Chainable(Tail(validators))
    ELSE <<Head(validators)>> \o Chainable(Tail(validators))

\* lines 288-367: the expression of a scalar field
EmitScalar(args, zodAnnotation) ==
    LET validators == IF zodAnnotation.kind = "annotation" THEN zodAnnotation.validators
                      ELSE <<>>
        hasTopLevelValidator == \E k \in 1..Len(validators) : IsTopLevelEmit(validators[k])
        base == getZodMethodForPrismaType(args.type, args.config)
        Has(name) == \E k \in 1..Len(validators) : IncludesCall(validators[k], name)
        chainable == Chainable(validators)
        defaults ==
            IF ~args.config.useDefaultValidators THEN <<>>
            ELSE IF args.type = "String"
            THEN IF args.hasDefaultValue /\ args.default = "cuid"
                 THEN IF ~Has("cuid2") THEN <<".", "cuid2", "(", ")">> ELSE <<>>
                 ELSE IF args.hasDefaultValue /\ args.default = "uuid"
                 THEN IF ~Has("uuid") THEN <<".", "uuid", "(", ")">> ELSE <<>>
                 ELSE <<>>
            ELSE IF args.type = "Int"
            THEN IF ~Has("int") THEN <<".", "int", "(", ")">> ELSE <<>>
            ELSE <<>>
    IN  IF hasTopLevelValidator
        THEN LET r == EmitTopLevelLoop(validators, 1, <<>>, FALSE)
             IN  IF r.hasWrittenBase THEN r.written ELSE r.written \o base
        ELSE base \o defaults
                \o Flatten([k \in 1..Len(chainable) |-> NullableToNullish(chainable[k])])

\* lines 378-385: the suffix of a nullable field
NullSuffix(args, zodAnnotation) ==
    LET hasNullableInChain ==
            /\ zodAnnotation.kind = "annotation"
            /\ \E k \in 1..Len(zodAnnotation.validators) :
                  \/ IncludesCall(zodAnnotation.validators[k], "nullable")
                  \/ IncludesCall(zodAnnotation.validators[k], "nullish")
    IN  IF args.nullable /\ ~hasNullableInChain THEN <<".", "nullish", "(", ")">> ELSE <<>>

\* lines 390-395: the description escaped for a string literal
RECURSIVE EscapeDescription(_)
EscapeDescription(d) ==
    IF d = <<>> THEN <<>>
    ELSE (IF Head(d) = BSL THEN <<BSL, BSL>>
          ELSE IF Head(d) = DQ THEN <<BSL, DQ>>
          ELSE IF Head(d) = NL THEN <<BSL, "n">>
          ELSE <<Head(d)>>) \o EscapeDescription(Tail(d))

\* lines 387-397: the description, written last
Describe(zodAnnotation) ==
    IF zodAnnotation.kind = "annotation" /\ zodAnnotation.description.some
          /\ zodAnnotation.description.val # <<>>
    THEN <<".", "describe", "(", DQ>> \o EscapeDescription(zodAnnotation.description.val)
            \o <<DQ, ")">>
    ELSE <<>>

\* line 206: doc.replace(/@kyselyType\([^)]+\)/g, ""): every @kyselyType( up to the next
\* ')' is cut out, when something stands between the two
RECURSIVE RemoveKyselyType(_)
RemoveKyselyType(doc) ==
    IF doc = <<>> THEN <<>>
    ELSE IF /\ Head(doc) = "@kyselyType" /\ Len(doc) >= 4 /\ doc[2] = "(" /\ doc[3] # ")"
            /\ \E e \in 4..Len(doc) : doc[e] = ")"
    THEN LET e == CHOOSE x \in 4..Len(doc) :
                      doc[x] = ")" /\ \A j \in 4..(x - 1) : doc[j] # ")"
         IN  RemoveKyselyType(SubSeq(doc, e + 1, Len(doc)))
    ELSE <<Head(doc)>> \o RemoveKyselyType(Tail(doc))

\* line 207: /^\/\/\/ @zod\..+$/gm matches a line that starts with "/// @zod." and goes on
IsSlashZodLine(line) ==
    Len(line) >= 3 /\ line[1] = TripleSlash /\ line[2] = ZodMarker

\* lines 208-210 and 214-216: the lines that are not blank, each trimmed
RECURSIVE KeptLines(_)
KeptLines(lines) ==
    IF lines = <<>> THEN <<>>
    ELSE (IF IsSlashZodLine(Head(lines)) \/ Trim(Head(lines)) = <<>> THEN <<>>
          ELSE <<Trim(Head(lines))>>) \o KeptLines(Tail(lines))

\* lines 204-219: the lines written between the comment markers, none when the
\* documentation is missing or nothing of it is left
LeadingComment(doc) ==
    IF doc = NoDoc THEN <<>> ELSE KeptLines(SplitOn(RemoveKyselyType(doc), NL))

\* lines 190-400: the expression written after `${name}: `
generateZodField(args) ==
    LET typeOverride == IF args.documentation # NoDoc
                        THEN generateTypeOverrideFromDocumentation(args.documentation)
                        ELSE None
        zodAnnotation == parseZodAnnotations(args.documentation)
        expr == IF typeOverride.some /\ typeOverride.val # <<>>
                THEN EmitTypeOverride(typeOverride.val)
                ELSE IF args.kind = "enum"
                THEN <<"z", ".", "nativeEnum", "(", args.type, ")">>
                ELSE IF args.kind = "scalar" THEN EmitScalar(args, zodAnnotation)
                ELSE Z("unknown")
    IN  expr \o (IF args.list THEN <<".", "array", "(", ")">> ELSE <<>>)
             \o NullSuffix(args, zodAnnotation)
             \o Describe(zodAnnotation)

----------------------------------------------------------------------------
(* BrandRegistryGenerator, src/src/generators/generateSQLiteBooleanPlugin.ts *)

\* the string a token sequence stands for
RECURSIVE Text(_)
Text(ts) == IF ts = <<>> THEN "" ELSE Head(ts) \o Text(Tail(ts))

\* the matches of \.brand\(["']([^"']+)["']\) in doc: <<k, e>> with the '.' at k and the
\* closing quote at e
BrandCalls(doc) ==
    LET Starts == {k \in 1..(Len(doc) - 6) :
                      /\ doc[k] = "." /\ doc[k + 1] = "brand" /\ doc[k + 2] = "("
                      /\ doc[k + 3] \in Quotes /\ doc[k + 4] \notin Quotes}
        Close(k) == CHOOSE e \in (k + 5)..(Len(doc) + 1) :
                        /\ e = Len(doc) + 1 \/ doc[e] \in Quotes
                        /\ \A j \in (k + 5)..(e - 1) : doc[j] \notin Quotes
    IN  {<<k, Close(k)>> : k \in {x \in Starts : /\ Close(x) + 1 <= Len(doc)
                                                 /\ doc[Close(x) + 1] = ")"}}

\* line 283: documentation.match(/@zod\.(.+?)\.brand\(["']([^"']+)["']\)/): the leftmost
\* marker with a match, and from it the shortest chain
LazyBrandMatch(doc) ==
    LET calls == BrandCalls(doc)
        Hits == {pke \in {p \in 1..Len(doc) : doc[p] = ZodMarker} \X calls :
                    /\ pke[2][1] >= pke[1] + 2
                    /\ \A j \in (pke[1] + 1)..(pke[2][1] - 1) : doc[j] # NL}
    IN  IF Hits = {} THEN None
        ELSE LET h == CHOOSE x \in Hits : \A y \in Hits :
                          \/ x[1] < y[1]
                          \/ x[1] = y[1] /\ x[2][1] <= y[2][1]
             IN  Some([validatorChain |-> SubSeq(doc, h[1] + 1, h[2][1] - 1),
                       brandName |-> Text(SubSeq(doc, h[2][1] + 4, h[2][2] - 1))])

\* the characters '.' of the marker count one by one in the loop of parseValidatorChain
RECURSIVE Chars(_)
Chars(chain) ==
    IF chain = <<>> THEN <<>>
    ELSE (IF Head(chain) = ZodMarker THEN <<"@zod", ".">> ELSE <<Head(chain)>>)
            \o Chars(Tail(chain))

\* lines 305-330: the loop of parseValidatorChain from position i on
RECURSIVE ChainLoop(_, _, _)
ChainLoop(chain, i, st) ==
    IF i > Len(chain) THEN st
    ELSE LET char == chain[i]
         IN  IF char = "("
             THEN ChainLoop(chain, i + 1,
                     [st EXCEPT !.parenDepth = @ + 1,
                                !.inArgs = IF st.parenDepth + 1 = 1 /\ st.current # <<>>
                                           THEN TRUE ELSE @,
                                !.current = Append(@, char)])
             ELSE IF char = ")"
             THEN IF st.parenDepth - 1 = 0 /\ st.inArgs
                  THEN ChainLoop(chain, i + 1,
                          [validators |-> Append(st.validators, Append(st.current, char)),
                           current |-> <<>>, parenDepth |-> 0, inArgs |-> FALSE])
                  ELSE ChainLoop(chain, i + 1,
                          [st EXCEPT !.parenDepth = @ - 1, !.current = Append(@, char)])
             ELSE IF char = "." /\ st.parenDepth = 0
             THEN IF st.current # <<>>
                  THEN ChainLoop(chain, i + 1,
                          [st EXCEPT !.validators = Append(@, st.current), !.current = <<>>])
                  ELSE ChainLoop(chain, i + 1, st)
             ELSE ChainLoop(chain, i + 1, [st EXCEPT !.current = Append(@, char)])

\* lines 299-337
parseValidatorChain(chain) ==
    LET st == ChainLoop(Chars(chain), 1,
                        [validators |-> <<>>, current |-> <<>>, parenDepth |-> 0,
                         inArgs |-> FALSE])
    IN  IF st.current # <<>> THEN Append(st.validators, st.current) ELSE st.validators

\* lines 341 and 434: validator.split('(')[0]
BaseMethod(validator) == Text(SplitOn(validator, "(")[1])

\* lines 344-355
typeMap ==
    [m \in {"string", "number", "cuid", "cuid2", "uuid", "email", "url", "int", "positive",
            "nonnegative"} |->
        IF m \in {"number", "int", "positive", "nonnegative"} THEN Z("number")
        ELSE IF m \in {"cuid", "cuid2"} THEN Z("cuid2")
        ELSE Z("string")]

\* lines 339-358
determineBaseType(firstValidator) ==
    LET baseMethod == BaseMethod(firstValidator)
    IN  IF baseMethod \in DOMAIN typeMap THEN typeMap[baseMethod] ELSE Z("string")

\* lines 279-297: None, the brand's information, or the TypeError of line 341 when the chain
\* has no validator
extractBrandInfo(doc) ==
    LET brandMatch == IF doc = NoDoc THEN None ELSE LazyBrandMatch(doc)
    IN  IF ~brandMatch.some THEN None
        ELSE LET validators == parseValidatorChain(brandMatch.val.validatorChain)
             IN  IF validators = <<>> THEN [some |-> TRUE, val |-> [kind |-> "TypeError"]]
                 ELSE Some([kind |-> "brand",
                            brandName |-> brandMatch.val.brandName,
                            baseType |-> determineBaseType(validators[1]),
                            validators |-> validators])

\* Map.prototype.set that keeps what the key already has
MapSetKeepFirst(map, key, value) ==
    IF \E k \in 1..Len(map) : map[k].key = key THEN map
    ELSE Append(map, [key |-> key, value |-> value])

\* Map.prototype.set that adds an entry on every call
MapSetAppend(map, key, value) == Append(map, [key |-> key, value |-> value])

\* Map.prototype.set: the value of a key is replaced where the key stands, a new key goes last
MapSet(map, key, value) ==
    IF \E k \in 1..Len(map) : map[k].key = key
    THEN [k \in 1..Len(map) |-> IF map[k].key = key THEN [key |-> key, value |-> value]
                                ELSE map[k]]
    ELSE Append(map, [key |-> key, value |-> value])

\* the fields of the models with their model, in model order then field order
RECURSIVE Sites(_)
Sites(models) ==
    IF models = <<>> THEN <<>>
    ELSE [k \in 1..Len(Head(models).fields) |->
             [model |-> Head(models), field |-> Head(models).fields[k]]]
         \o Sites(Tail(models))

\* lines 264-277: the loop of collectBrandedTypes from site k on; Set is the map's set
RECURSIVE CollectLoop(_, _, _)
CollectLoop(sites, k, map) ==
    IF k > Len(sites) THEN [kind |-> "ok", brands |-> map]
    ELSE LET brandInfo == extractBrandInfo(sites[k].field.documentation)
         IN  IF ~brandInfo.some THEN CollectLoop(sites, k + 1, map)
             ELSE IF brandInfo.val.kind = "TypeError" THEN [kind |-> "TypeError", brands |-> map]
             ELSE CollectLoop(sites, k + 1,
                     MapSet(map, brandInfo.val.brandName,
                            [brandName |-> brandInfo.val.brandName,
                             baseType |-> brandInfo.val.baseType,
                             validators |-> brandInfo.val.validators,
                             modelName |-> sites[k].model.name,
                             fieldName |-> sites[k].field.name]))

\* lines 264-277
collectBrandedTypes(dmmf) == CollectLoop(Sites(dmmf), 1, <<>>)

\* the characters in the order localeCompare gives them, case apart
CollationOrder == "_0123456789abcdefghijklmnopqrstuvwxyz"

LowerCase == "abcdefghijklmnopqrstuvwxyz"

UpperCase == "ABCDEFGHIJKLMNOPQRSTUVWXYZ"

\* the position of the character c in the string str, 0 when it is not there
IndexOf(str, c) ==
    IF \E i \in 1..Len(str) : SubSeq(str, i, i) = c
    THEN CHOOSE i \in 1..Len(str) : SubSeq(str, i, i) = c
    ELSE 0

\* String.prototype.toLowerCase of one character
ToLower(c) ==
    IF IndexOf(UpperCase, c) # 0
    THEN SubSeq(LowerCase, IndexOf(UpperCase, c), IndexOf(UpperCase, c))
    ELSE c

\* String.prototype.toLowerCase
RECURSIVE toLowerCase(_)
toLowerCase(str) ==
    IF str = "" THEN "" ELSE ToLower(SubSeq(str, 1, 1)) \o toLowerCase(Tail(str))

\* a before b, letter by letter, with the rank Rank of a character
RECURSIVE Before(_, _, _)
Before(a, b, upperCounts) ==
    LET Rank(c) == IF upperCounts THEN IndexOf(UpperCase, c)
                   ELSE IndexOf(CollationOrder, ToLower(c))
    IN  IF a = "" THEN b # ""
        ELSE IF b = "" THEN FALSE
        ELSE IF Rank(SubSeq(a, 1, 1)) # Rank(SubSeq(b, 1, 1))
        THEN Rank(SubSeq(a, 1, 1)) < Rank(SubSeq(b, 1, 1))
        ELSE Before(Tail(a), Tail(b), upperCounts)

\* line 407: a.localeCompare(b) < 0: the letters decide, then lower case before upper case
LocaleBefore(a, b) ==
    IF toLowerCase(a) # toLowerCase(b) THEN Before(a, b, FALSE) ELSE Before(a, b, TRUE)

\* line 407: the entries sorted by name; Array.prototype.sort is stable
RECURSIVE SortBrands(_)
SortBrands(map) ==
    IF map = <<>> THEN <<>>
    ELSE LET Firsts == {k \in 1..Len(map) :
                           \A j \in 1..Len(map) : ~LocaleBefore(map[j].key, map[k].key)}
             k == CHOOSE x \in Firsts : \A y \in Firsts : x <= y
         IN  <<map[k]>> \o SortBrands(SubSeq(map, 1, k - 1) \o SubSeq(map, k + 1, Len(map)))

\* lines 423-430 and 437-441: a validator with its parentheses
WithParens(validator) ==
    IF Contains(validator, "(") THEN <<".">> \o validator
    ELSE <<".">> \o validator \o <<"(", ")">>

\* lines 416-446: the chain of a registry entry
RECURSIVE RestOfChain(_, _, _)
RestOfChain(validators, i, special) ==
    IF i > Len(validators) THEN <<>>
    ELSE (IF special \/ BaseMethod(validators[i]) \notin {"string", "number", "cuid", "cuid2"}
          THEN WithParens(validators[i]) ELSE <<>>)
            \o RestOfChain(validators, i + 1, special)

\* lines 416-446
ValidatorChain(brand) ==
    (IF Len(brand.validators) >= 2 /\ brand.validators[1] = <<"number">>
           /\ brand.validators[2] = <<"int", "(", ")">>
     THEN <<"z", ".", "number", "(", ")", ".", "int", "(", ")">>
              \o RestOfChain(brand.validators, 3, TRUE)
     ELSE brand.baseType \o RestOfChain(brand.validators, 1, FALSE))
        \o <<".", "brand", "(", DQ, brand.brandName, DQ, ")">>

\* lines 390-473: the export statements of branded.ts, one for each entry of the map
writeRegistryFile(map) ==
    LET sortedBrands == SortBrands(map)
    IN  [k \in 1..Len(sortedBrands) |->
            [name |-> sortedBrands[k].key,
             chain |-> ValidatorChain(sortedBrands[k].value),
             usedIn |-> <<sortedBrands[k].value.modelName,
                          sortedBrands[k].value.fieldName>>]]

----------------------------------------------------------------------------
(* Names of fields: normalizeCase and the keys of the base schema *)

\* String.prototype.toUpperCase of one character
ToUpper(c) ==
    IF IndexOf(LowerCase, c) # 0
    THEN SubSeq(UpperCase, IndexOf(LowerCase, c), IndexOf(LowerCase, c))
    ELSE c

\* snake_case to camelCase: an underscore goes and the character after it is upper case
RECURSIVE ToCamelCase(_)
ToCamelCase(name) ==
    IF name = "" THEN ""
    ELSE IF SubSeq(name, 1, 1) = "_" /\ Len(name) >= 2
    THEN ToUpper(SubSeq(name, 2, 2)) \o ToCamelCase(SubSeq(name, 3, Len(name)))
    ELSE SubSeq(name, 1, 1) \o ToCamelCase(Tail(name))

\* normalizeCase (utils/normalizeCase, not part of the sources): the name as it is unless
\* the camelCase option is set
normalizeCase(name, config) == IF config.camelCase THEN ToCamelCase(name) ELSE name

\* field.dbName || field.name; a field without @map has the dbName ""
DbOrName(field) == IF field.dbName # "" THEN field.dbName ELSE field.name

\* src/src/helpers/generateZodSchema.ts lines 79-100: the keys of the model's base schema
BaseSchemaKeys(model, config) ==
    {normalizeCase(DbOrName(model.fields[k]), config) :
        k \in {j \in 1..Len(model.fields) :
                  model.fields[j].kind \notin {"object", "unsupported"}}}

\* src/src/helpers/generateZodSchema.ts lines 79-100: the fields of the model's base
\* schema, each with the expression generateZodField writes for it
BaseSchemaFields(model, config) ==
    {[field |-> model.fields[k].name,
      key |-> normalizeCase(DbOrName(model.fields[k]), config),
      expr |-> generateZodField(
                  [name |-> normalizeCase(DbOrName(model.fields[k]), config),
                   type |-> model.fields[k].type,
                   kind |-> model.fields[k].kind,
                   nullable |-> ~model.fields[k].isRequired,
                   list |-> model.fields[k].isList,
                   documentation |-> model.fields[k].documentation,
                   config |-> config,
                   hasDefaultValue |-> model.fields[k].hasDefaultValue,
                   default |-> model.fields[k].default])] :
        k \in {j \in 1..Len(model.fields) :
                  model.fields[j].kind \notin {"object", "unsupported"}}}

----------------------------------------------------------------------------
(* ThreeLayerSchemaGenerator, src/src/generators/generateThreeLayerSchemas.ts *)

\* lines 218 and generateZodSchema.ts line 1240:
\* documentation.match(/@zod\..*\.brand\(["']([^"']+)["']\)/): the leftmost marker with a
\* match, and from it the longest chain
GreedyBrandMatch(doc) ==
    LET calls == BrandCalls(doc)
        Hits == {pke \in {p \in 1..Len(doc) : doc[p] = ZodMarker} \X calls :
                    /\ pke[2][1] >= pke[1] + 1
                    /\ \A j \in (pke[1] + 1)..(pke[2][1] - 1) : doc[j] # NL}
    IN  IF Hits = {} THEN None
        ELSE LET h == CHOOSE x \in Hits : \A y \in Hits :
                          \/ x[1] < y[1]
                          \/ x[1] = y[1] /\ x[2][1] >= y[2][1]
             IN  Some(Text(SubSeq(doc, h[2][1] + 4, h[2][2] - 1)))

\* lines 215-220
extractBrandFromDocs(doc) ==
    IF doc = NoDoc THEN None ELSE GreedyBrandMatch(doc)

\* lines 29-74: the layers, in the order they are written, and their suffixes
layers == <<"Database", "Runtime", "API">>

Suffix(layer) == IF layer = "Database" THEN "DB" ELSE layer

\* a Runtime layer that also gives Decimal fields a transform
fieldTransformsDecimalAtRuntime(layer, field) ==
    IF layer = "Database" THEN FALSE ELSE field.type \in {"BigInt", "Decimal"}

\* lines 44-56 and 62-72: the fields a layer has a transform for
fieldTransforms(layer, field) ==
    IF layer = "Runtime" THEN field.type = "BigInt"
    ELSE IF layer = "API" THEN field.type \in {"BigInt", "Decimal"}
    ELSE FALSE

\* lines 181-198: the expression written for an overridden field: the shape of the base
\* schema, the calls appended to it in order, and the brand it is cast to
LayerFieldExpr(layer, field) ==
    LET brandName == extractBrandFromDocs(field.documentation)
    IN  IF layer = "Runtime" /\ brandName.some
        THEN [calls |-> <<"pipe(transform)", "pipe(cast)">>, brand |-> brandName]
        ELSE [calls |-> (IF ~field.isRequired THEN <<"unwrap">> ELSE <<>>)
                           \o <<"pipe(transform)">>
                           \o (IF ~field.isRequired THEN <<"nullable">> ELSE <<>>),
              brand |-> None]

\* lines 148-212: the schema of a layer: its exported name, whether it is bound to the base
\* schema itself, and the fields .extend() overrides
generateLayerSchemaWithComposition(model, layer, config) ==
    LET fieldsToTransform == {k \in 1..Len(model.fields) :
                                 /\ model.fields[k].kind # "object"
                                 /\ fieldTransforms(layer, model.fields[k])}
    IN  [name |-> model.name \o Suffix(layer) \o "Schema",
         isBase |-> layer = "Database" \/ fieldsToTransform = {},
         overrides |->
            IF layer = "Database" THEN {}
            ELSE {[name |-> normalizeCase(DbOrName(model.fields[k]), config),
                   expr |-> LayerFieldExpr(layer, model.fields[k])] :
                      k \in fieldsToTransform}]

\* lines 222-258: the three functions: the name each is exported under and what its body
\* calls
generateTransformFunctions(model) ==
    LET lower == toLowerCase(model.name)
    IN  <<[name |-> lower \o "DBToRuntime", body |-> <<model.name \o "RuntimeSchema">>],
          [name |-> lower \o "RuntimeToAPI", body |-> <<model.name \o "APISchema">>],
          [name |-> lower \o "DBToAPI",
           body |-> <<lower \o "DBToRuntime", lower \o "RuntimeToAPI">>]>>

\* lines 100-146: the file of a model: its name, whether it imports the brands namespace,
\* the schemas of the layers, the transform functions, and the brands.X it mentions
\* (lines 182-187)
generateModelSchemas(model, brandRegistryPath, config) ==
    [file |-> toLowerCase(model.name) \o ".schemas.ts",
     importsBrands |-> brandRegistryPath.some,
     schemas |-> [i \in 1..Len(layers) |->
                     generateLayerSchemaWithComposition(model, layers[i], config)],
     transforms |-> generateTransformFunctions(model),
     brandRefs |->
        {extractBrandFromDocs(model.fields[k].documentation).val :
            k \in {j \in 1..Len(model.fields) :
                      /\ model.fields[j].kind # "object"
                      /\ fieldTransforms("Runtime", model.fields[j])
                      /\ extractBrandFromDocs(model.fields[j].documentation).some}}]

----------------------------------------------------------------------------
(* CrudSchemaGenerator, src/src/helpers/generateZodSchema.ts *)

\* lines 383-386: new RegExp(`${key}\\((.+?)\\)`).exec(doc): the text between the
\* parentheses of the first key( that has a closing parenthesis on its line
KeyMatch(doc, key) ==
    LET Close(p) == CHOOSE e \in (p + 3)..(Len(doc) + 1) :
                        /\ e = Len(doc) + 1 \/ doc[e] \in {")", NL}
                        /\ \A j \in (p + 3)..(e - 1) : doc[j] \notin {")", NL}
        Hits == {p \in 1..(Len(doc) - 3) :
                    /\ doc[p] = key /\ doc[p + 1] = "(" /\ doc[p + 2] # NL
                    /\ Close(p) <= Len(doc) /\ doc[Close(p)] = ")"}
    IN  IF Hits = {} THEN None
        ELSE LET p == CHOOSE x \in Hits : \A y \in Hits : x <= y
             IN  Some(SubSeq(doc, p + 2, Close(p) - 1))

\* line 400: s.replace(/["']/g, '')
RECURSIVE StripQuotes(_)
StripQuotes(s) ==
    IF s = <<>> THEN <<>>
    ELSE IF Head(s) \in Quotes THEN StripQuotes(Tail(s))
    ELSE <<Head(s)>> \o StripQuotes(Tail(s))

\* lines 397-401: the value of an annotation of type 'array'
ArrayValue(value) ==
    LET noOpen == IF value # <<>> /\ Head(value) = "[" THEN Tail(value) ELSE value
        noClose == IF noOpen # <<>> /\ noOpen[Len(noOpen)] = "]"
                   THEN SubSeq(noOpen, 1, Len(noOpen) - 1) ELSE noOpen
        items == SplitOn(Trim(noClose), ",")
    IN  [k \in 1..Len(items) |-> Text(StripQuotes(Trim(items[k])))]

\* lines 329-405 for the type 'array': None stands for null
parseAnnotation(doc, key) ==
    LET match == KeyMatch(doc, key)
    IN  IF match.some THEN Some(ArrayValue(match.val)) ELSE None

\* lines 329-405 for the type 'string': the value without its quotes
parseStringAnnotation(doc, key) ==
    LET match == KeyMatch(doc, key)
    IN  IF match.some THEN Some(Text(StripQuotes(match.val))) ELSE None

\* the set of the entries of a sequence
Range(s) == {s[k] : k \in 1..Len(s)}

\* lines 250-327: what the annotations of a model say about Create and Update:
\* model.create.omit, model.update.omit, model.update.immutable, model.update.refine, and
\* fields[name].omitFrom of every documented field
parseModelAnnotations(model) ==
    LET ArrayOf(key) == IF model.documentation # NoDoc
                           /\ parseAnnotation(model.documentation, key).some
                        THEN Range(parseAnnotation(model.documentation, key).val)
                        ELSE {}
    IN  [createOmit |-> ArrayOf("@crud.create.omit"),
         updateOmit |-> ArrayOf("@crud.update.omit"),
         updateImmutable |-> ArrayOf("@crud.update.immutable"),
         updateRefine |-> IF model.documentation # NoDoc
                          THEN parseStringAnnotation(model.documentation,
                                                     "@crud.update.refine")
                          ELSE None,
         omitFrom |-> [name \in {model.fields[k].name : k \in 1..Len(model.fields)} |->
                        LET f == CHOOSE g \in Range(model.fields) : g.name = name
                        IN  IF f.documentation # NoDoc
                               /\ parseAnnotation(f.documentation, "@crud.omit").some
                            THEN Range(parseAnnotation(f.documentation, "@crud.omit").val)
                            ELSE {}]]

\* lines 585-586
timestampFields == {"created_at", "createdAt", "updated_at", "updatedAt"}

\* lines 556-595
shouldOmitFieldInCreate(field, model, baseConfig) ==
    LET annotations == parseModelAnnotations(model)
    IN  \/ "create" \in annotations.omitFrom[field.name]
        \/ field.name \in annotations.createOmit
        \/ field.kind = "object"
        \/ field.isId /\ field.hasDefaultValue
        \/ field.isUpdatedAt
        \/ field.hasDefaultValue /\ field.default = "now"
        \/ /\ normalizeCase(DbOrName(field), baseConfig) \in timestampFields
           /\ field.hasDefaultValue

\* lines 1201-1217: the relation field that uses the field as its foreign key
getRelationFieldForForeignKey(field, model) ==
    LET Rel == {k \in 1..Len(model.fields) :
                   /\ model.fields[k].kind = "object"
                   /\ field.name \in Range(model.fields[k].relationFromFields)}
    IN  IF field.kind # "scalar" \/ Rel = {} THEN None
        ELSE Some(model.fields[CHOOSE k \in Rel : \A j \in Rel : k <= j])

\* lines 1219-1248
getBrandNameForField(field, model) ==
    LET relationField == getRelationFieldForForeignKey(field, model)
    IN  IF field.isId THEN Some(model.name \o "Id")
        ELSE IF relationField.some THEN Some(relationField.val.type \o "Id")
        ELSE IF field.documentation # NoDoc THEN GreedyBrandMatch(field.documentation)
        ELSE None

\* lines 1181-1199: the brands.X that generateFieldSchema writes for a field
FieldSchemaBrandRefs(field, model, baseConfig) ==
    LET brandName == getBrandNameForField(field, model)
    IN  IF brandName.some /\ baseConfig.generateBrandRegistry THEN {brandName.val} ELSE {}

\* the positions of the model's fields
Positions(model) == 1..Len(model.fields)

\* lines 647-821: the Create schema: the path taken, the keys handed to .omit() on the
\* composition path, the keys written on the fallback path, the brands.X it mentions
generateCreateSchema(model, baseConfig) ==
    IF baseConfig.generateThreeLayers
    THEN [path |-> "composition",
          omit |-> {DbOrName(model.fields[k]) :
                       k \in {j \in Positions(model) :
                                 /\ model.fields[j].kind # "object"
                                 /\ shouldOmitFieldInCreate(model.fields[j], model,
                                                            baseConfig)}},
          fields |-> {},
          brandRefs |-> {}]
    ELSE LET kept == {j \in Positions(model) :
                         ~shouldOmitFieldInCreate(model.fields[j], model, baseConfig)}
         IN  [path |-> "fallback",
              omit |-> {},
              fields |-> {normalizeCase(DbOrName(model.fields[k]), baseConfig) : k \in kept},
              brandRefs |-> UNION {FieldSchemaBrandRefs(model.fields[k], model, baseConfig) :
                                      k \in kept}]

\* lines 1268-1269: the text captured by /@zod\.(.+?)(?:\s|$)/: the tokens behind the
\* first marker up to the first white space, None without a marker
CrudZodMatch(doc) ==
    LET Hits == {p \in 1..(Len(doc) - 1) : doc[p] = ZodMarker /\ doc[p + 1] # NL}
    IN  IF Hits = {} THEN None
        ELSE LET p == CHOOSE x \in Hits : \A y \in Hits : x <= y
                 Ends == {k \in (p + 2)..Len(doc) : doc[k] \in {SP, NL}}
                 e == IF Ends = {} THEN Len(doc) + 1
                      ELSE CHOOSE k \in Ends : \A j \in Ends : k <= j
             IN  Some(SubSeq(doc, p + 1, e - 1))

\* lines 1252-1262: the table of getZodTypeForField
CrudTypeMap(type) ==
    CASE type = "String" -> Z("string")
      [] type = "Int" -> Z("number") \o <<".", "int", "(", ")">>
      [] type = "Float" -> Z("number")
      [] type = "Boolean" -> Z("boolean")
      [] type = "DateTime" -> Z("string") \o <<".", "datetime", "(", ")">>
      [] type = "Json" -> Z("any")
      [] type = "Bytes" -> <<"z", ".", "instanceof", "(", "Buffer", ")">>
      [] type = "Decimal" -> Z("number")
      [] type = "BigInt" -> Z("bigint")
      [] OTHER -> Z("unknown")

\* validators.includes('name()')
IncludesName(validators, name) ==
    \E k \in 1..(Len(validators) - 2) :
        validators[k] = name /\ validators[k + 1] = "(" /\ validators[k + 2] = ")"

\* lines 1250-1291
getZodTypeForField(field) ==
    LET zodMatch == IF field.documentation # NoDoc THEN CrudZodMatch(field.documentation)
                    ELSE None
        zodType ==
            IF ~zodMatch.some THEN CrudTypeMap(field.type)
            ELSE IF IncludesName(zodMatch.val, "email")
                 THEN Z("string") \o <<".", "email", "(", ")">>
            ELSE IF IncludesName(zodMatch.val, "url")
                 THEN Z("string") \o <<".", "url", "(", ")">>
            ELSE IF IncludesName(zodMatch.val, "uuid")
                 THEN Z("string") \o <<".", "uuid", "(", ")">>
            ELSE IF IncludesName(zodMatch.val, "cuid") THEN Z("cuid2")
            ELSE CrudTypeMap(field.type)
    IN  IF field.list THEN <<"z", ".", "array", "(">> \o zodType \o <<")">> ELSE zodType

\* lines 897 and 979: the message of the refinement when none is annotated
DefaultRefineMessage == "At least one field must be provided for update"

\* a refinement that counts every key of the payload
UpdateRefinementAnyKey(idFieldName, data) == data # {}

\* lines 902-906 and 971-973: the function handed to .refine(): the keys of the parsed
\* payload without the identifier are counted
UpdateRefinement(idFieldName, data) == data \ {idFieldName} # {}

\* line 976: the function handed to .refine() for a model without identifier
UpdateRefinementNoId(data) == data # {}

\* the expression of an identifier that never takes a brand
UpdateIdExprUnbranded(idField, model, baseConfig, fallback) ==
    IF fallback THEN [kind |-> "cuid2"] ELSE [kind |-> "shape"]

\* lines 885-890 and 925-930: the expression of the identifier: the brand when one
\* resolves and the registry is generated, else the shape of the base schema or z.cuid2()
UpdateIdExpr(idField, model, baseConfig, fallback) ==
    LET brandName == getBrandNameForField(idField, model)
    IN  IF brandName.some /\ baseConfig.generateBrandRegistry
        THEN [kind |-> "brand", brandName |-> brandName.val]
        ELSE IF fallback THEN [kind |-> "cuid2"] ELSE [kind |-> "shape"]

\* lines 1196-1198 and 961-963: the number of .optional() written after a field of the
\* fallback Update schema
UpdateOptionalCount(field) ==
    (IF ~field.isRequired THEN 1 ELSE 0) + (IF field.isRequired THEN 1 ELSE 0)

\* lines 823-984: the Update schema: the path taken, the keys handed to .omit() and whether
\* .partial() follows on the composition path, the keys written with their number of
\* .optional() on the fallback path, the identifier with its expression, the name the
\* refinement takes out, its message, and the brands.X the schema mentions
generateUpdateSchema(model, baseConfig) ==
    LET annotations == parseModelAnnotations(model)
        Ids == {k \in Positions(model) : model.fields[k].isId}
        hasId == Ids # {}
        idField == model.fields[CHOOSE k \in Ids : \A j \in Ids : k <= j]
        idFieldName == normalizeCase(DbOrName(idField), baseConfig)
        Name(k) == normalizeCase(DbOrName(model.fields[k]), baseConfig)
        others == {k \in Positions(model) :
                      LET field == model.fields[k]
                      IN  /\ ~field.isId
                          /\ ~(field.isUpdatedAt \/ Name(k) = "updated_at")
                          /\ field.kind # "object"
                          /\ Name(k) \notin {"created_at", "createdAt"}}
    IN  IF baseConfig.generateThreeLayers /\ hasId
        THEN LET idExpr == UpdateIdExpr(idField, model, baseConfig, FALSE)
             IN  [path |-> "composition",
                  omit |-> {Name(k) : k \in {j \in Positions(model) :
                                                Name(j) \in timestampFields}}
                           \cup annotations.updateOmit
                           \cup annotations.updateImmutable
                           \cup {Name(k) : k \in {j \in Positions(model) :
                                    "update" \in annotations.omitFrom[model.fields[j].name]}},
                  partial |-> TRUE,
                  fields |-> {},
                  id |-> Some([name |-> idFieldName, expr |-> idExpr]),
                  refineId |-> Some(idFieldName),
                  refineMessage |-> IF annotations.updateRefine.some
                                       /\ annotations.updateRefine.val # ""
                                    THEN annotations.updateRefine.val
                                    ELSE DefaultRefineMessage,
                  brandRefs |-> IF idExpr.kind = "brand" THEN {idExpr.brandName} ELSE {}]
        ELSE LET idExpr == UpdateIdExpr(idField, model, baseConfig, TRUE)
             IN  [path |-> "fallback",
                  omit |-> {},
                  partial |-> FALSE,
                  fields |-> {[name |-> Name(k),
                               optionals |-> UpdateOptionalCount(model.fields[k])] :
                                  k \in others},
                  id |-> IF hasId THEN Some([name |-> idFieldName, expr |-> idExpr])
                         ELSE None,
                  refineId |-> IF hasId THEN Some(idFieldName) ELSE None,
                  refineMessage |-> DefaultRefineMessage,
                  brandRefs |->
                      (IF hasId /\ idExpr.kind = "brand" THEN {idExpr.brandName} ELSE {})
                      \cup UNION {FieldSchemaBrandRefs(model.fields[k], model, baseConfig) :
                                     k \in others}]

\* lines 495-554: the file of a model
generateModelCrudSchemas(model, baseConfig) ==
    LET create == generateCreateSchema(model, baseConfig)
        update == generateUpdateSchema(model, baseConfig)
    IN  [file |-> model.name \o ".schema.ts",
         modelName |-> model.name,
         importsBrands |-> baseConfig.generateBrandRegistry,
         create |-> create,
         update |-> update,
         brandRefs |-> create.brandRefs \cup update.brandRefs]

----------------------------------------------------------------------------
(* The parts of the state that a specification leaves alone *)

NoArgs == [name |-> "none"]

NoConfig == [databaseProvider |-> "none"]

\* no parse of a lone documentation string is under way
ParseIdle == documentation = NoDoc /\ parts = <<>> /\ zodResult = Null /\ pcParse = "idle"

\* no run of the generator is under way
RunIdle ==
    /\ datamodel = <<>> /\ runConfig = NoConfig /\ zodSchemas = <<>> /\ brands = <<>>
    /\ brandedFile = None /\ layerFiles = <<>> /\ crudFiles = <<>> /\ console = <<>>
    /\ fsLog = <<>> /\ faults = {} /\ pcRun = "idle"

\* no call of generateZodField is under way
FieldIdle == fieldArgs = NoArgs /\ emitted = <<>> /\ comment = <<>> /\ pcField = "idle"

----------------------------------------------------------------------------
(* One call of generateZodField *)

\* the longest annotation chain of a field, in segments
MaxSegs == 2

\* the segments the annotations of the fields are built from
Segments == {<<"string", "(", ")">>, <<"email", "(", ")">>, <<"nullable", "(", ")">>,
             <<"min", "(", "1", ")">>, <<"cuid2", "(", ")">>, <<"int", "(", ")">>}

\* the chains of n segments, joined by '.'
RECURSIVE Chains(_)
Chains(n) ==
    IF n = 1 THEN Segments
    ELSE {c \o <<".">> \o g : c \in Chains(n - 1), g \in Segments}

KyselyTypeDocs ==
    {<<"@kyselyType", "(", "import", "(", SQ, "p", SQ, ")", ".", "T", ")">>,
     <<"@kyselyType", "(", "import", "(", SQ, "p", SQ, ")", ".", "T", SP, "|", SP, "null", ")">>,
     <<"@kyselyType", "(", SQ, "a", SQ, SP, "|", SP, SQ, "b", SQ, ")">>,
     <<"@kyselyType", "(", SQ, "a", SQ, ")", NL, ZodMarker, "nullable", "(", ")">>}

\* documentation with lines of prose beside the annotations
CommentDocs ==
    {<<"Login", SP, "name", NL, TripleSlash, ZodMarker, "email", "(", ")">>,
     <<"Login", SP, "name", NL, ZodMarker, "email", "(", ")">>,
     <<"Login", SP, "name">>,
     <<"Shape", SP, "@kyselyType", "(", SQ, "a", SQ, ")", NL, "of", SP, "the", SP, "row">>}

\* annotations whose arguments hold an object with a message
MessageDocs ==
    {<<ZodMarker, "int", "(", "{", SP, "message", ":", SP, DQ, "Whole", DQ, SP, "}", ")">>,
     <<ZodMarker, "min", "(", "3", ",", SP, "{", SP, "message", ":", SP, DQ, "m", DQ, SP,
       "}", ")">>}

FieldDocs ==
    {NoDoc} \cup KyselyTypeDocs \cup CommentDocs \cup MessageDocs
        \cup {<<ZodMarker>> \o c : c \in UNION {Chains(n) : n \in 1..MaxSegs}}

\* type, kind and default of the fields: DMMF.Field
FieldShapes ==
    {[type |-> "String", kind |-> "scalar", hasDefaultValue |-> FALSE, default |-> "none"],
     [type |-> "String", kind |-> "scalar", hasDefaultValue |-> TRUE, default |-> "cuid"],
     [type |-> "String", kind |-> "scalar", hasDefaultValue |-> TRUE, default |-> "uuid"],
     [type |-> "Int", kind |-> "scalar", hasDefaultValue |-> FALSE, default |-> "none"],
     [type |-> "Boolean", kind |-> "scalar", hasDefaultValue |-> FALSE, default |-> "none"],
     [type |-> "BigInt", kind |-> "scalar", hasDefaultValue |-> FALSE, default |-> "none"],
     [type |-> "Decimal", kind |-> "scalar", hasDefaultValue |-> FALSE, default |-> "none"],
     [type |-> "DateTime", kind |-> "scalar", hasDefaultValue |-> TRUE, default |-> "now"],
     [type |-> "Role", kind |-> "enum", hasDefaultValue |-> FALSE, default |-> "none"],
     [type |-> "Geo", kind |-> "unsupported", hasDefaultValue |-> FALSE, default |-> "none"]}

FieldConfigs ==
    {[databaseProvider |-> "sqlite", useDefaultValidators |-> TRUE],
     [databaseProvider |-> "postgresql", useDefaultValidators |-> TRUE],
     [databaseProvider |-> "mysql", useDefaultValidators |-> TRUE],
     [databaseProvider |-> "sqlite", useDefaultValidators |-> FALSE]}

\* GenerateZodFieldArgs, lines 178-188
FieldInputs ==
    {[name |-> "f", type |-> sh.type, kind |-> sh.kind, nullable |-> n, list |-> l,
      documentation |-> d, config |-> c, hasDefaultValue |-> sh.hasDefaultValue,
      default |-> sh.default] :
        sh \in FieldShapes, n \in BOOLEAN, l \in BOOLEAN, d \in FieldDocs, c \in FieldConfigs}

InitField ==
    /\ fieldArgs \in FieldInputs
    /\ emitted = <<>>
    /\ comment = <<>>
    /\ pcField = "start"
    /\ ParseIdle
    /\ RunIdle

\* lines 190-400: the field's expression is written
WriteField ==
    /\ pcField = "start"
    /\ emitted' = generateZodField(fieldArgs)
    /\ comment' = LeadingComment(fieldArgs.documentation)
    /\ pcField' = "done"
    /\ UNCHANGED <<fieldArgs, parseVars, runVars>>

NextField == WriteField

\* the scalar fields the CRUD generator writes field by field, on every engine
CrudFieldInputs ==
    {[name |-> "f", type |-> t, kind |-> "scalar", nullable |-> n, list |-> l,
      documentation |-> d, config |-> [databaseProvider |-> e, useDefaultValidators |-> TRUE],
      hasDefaultValue |-> FALSE, default |-> "none"] :
        t \in ScalarTypes, n \in BOOLEAN, l \in BOOLEAN, e \in Providers,
        d \in {NoDoc, <<"Login name">>, <<TripleSlash, ZodMarker, "email", "(", ")">>}}

InitCrudField ==
    /\ fieldArgs \in CrudFieldInputs
    /\ emitted = <<>>
    /\ comment = <<>>
    /\ pcField = "start"
    /\ ParseIdle
    /\ RunIdle

\* lines 1190-1192: the type of the field is written
WriteCrudField ==
    /\ pcField = "start"
    /\ emitted' = getZodTypeForField(fieldArgs)
    /\ pcField' = "crud"
    /\ UNCHANGED <<fieldArgs, comment, parseVars, runVars>>

SpecCrudField == InitCrudField /\ [][WriteCrudField]_vars

SpecField == InitField /\ [][NextField]_vars

\* the number of .nullish() and .nullable() calls in an expression
NullSuffixCount(e) ==
    Cardinality({k \in 1..(Len(e) - 3) :
                    /\ e[k] = "." /\ e[k + 1] \in {"nullish", "nullable"}
                    /\ e[k + 2] = "(" /\ e[k + 3] = ")"})

\* C7: a required field without annotation is written without a null-or-absent suffix, and
\* a nullable field is written with exactly one, whatever its annotation and its branch
C7_NullabilitySuffix ==
    pcField = "done" =>
        /\ (~fieldArgs.nullable /\ fieldArgs.documentation = NoDoc
               => NullSuffixCount(emitted) = 0)
        /\ (fieldArgs.nullable => NullSuffixCount(emitted) = 1)

----------------------------------------------------------------------------
(* The parser run on one documentation string *)

\* the longest chain drawn from SplitAlphabet
MaxLen == 4

SplitAlphabet == {"a", ".", "(", ")", "/", BSL}

ShortChains == UNION {[1..k -> SplitAlphabet] : k \in 0..MaxLen}

RegexExample ==
    <<"string", ".", "regex", "(", "/", "a", ".", "b", "/", ",", SP, DQ, "msg", DQ, ")">>

CuratedChains ==
    { RegexExample,
      <<"cuid", "(", ")", ".", "brand", "(", DQ, "UserId", DQ, ")">>,
      <<"brand", "(", SQ, "UserId", SQ, ")">>,
      <<"string", ".", "brand">>,
      <<"string", ".", "brand", "(", ")">>,
      <<"string", ".", "min", "(", "3", ",", SP, "{", SP, "message", ":", SP, DQ, "m", DQ,
        SP, "}", ")">>,
      <<"string", ".", "max", "(", "{", "x", ":", "3", "}", ")">>,
      <<"string", ".", "email", "(", "{", SP, "message", ":", SP, DQ, "m", DQ, SP, "}", ")">>,
      <<"string", ".", "max", "(", "{", SP, "message", ":", SP, DQ, "m", DQ, ",", SP,
        "abort", ":", SP, "true", SP, "}", ")">>,
      <<"string", ".", "describe", "(", DQ, "d", BSL, DQ, "e", DQ, ")">>,
      <<"string", ".", "regex", "(", "/", "a", "/", "i", ")">>,
      <<"string", ".", "regex", "(", "/", "a", "/", "x", ")">>,
      <<"email", "(", ")", ".", "nullable", "(", ")">>,
      <<"string", ".", "min", "(", "3">>,
      <<"number", ".", "int", "(", ")", ".", "min", "(", "1", ")", SP>>,
      <<"string", ".", "startsWith", "(", DQ, "/", DQ, ")", ".", "min", "(", "1", ")">> }

ParseDocs ==
    {NoDoc, <<"text">>, <<"text", NL, ZodMarker>>}
        \cup {<<ZodMarker>> \o c : c \in ShortChains \cup CuratedChains}
        \cup {<<"text", NL, TripleSlash, ZodMarker>> \o c \o <<NL, "more">> : c \in CuratedChains}
        \cup {<<ZodMarker, "min", "(", "1", ")", NL, TripleSlash, ZodMarker, "max", "(", "2", ")">>}

Pending == [kind |-> "pending"]

InitParse ==
    /\ documentation \in ParseDocs
    /\ parts = <<>>
    /\ zodResult = Pending
    /\ pcParse = "start"
    /\ FieldIdle
    /\ RunIdle

\* lines 18-26: no documentation, or no annotation in it
ParseReturnNull ==
    /\ pcParse = "start"
    /\ (documentation = NoDoc \/ ~ZodMatch(documentation).some)
    /\ zodResult' = Null
    /\ pcParse' = "done"
    /\ UNCHANGED <<documentation, parts, fieldVars, runVars>>

\* lines 28-63: the annotation is split into its segments
ParseSplit ==
    /\ pcParse = "start"
    /\ documentation # NoDoc
    /\ ZodMatch(documentation).some
    /\ parts' = SplitParts(ZodMatch(documentation).val)
    /\ pcParse' = "process"
    /\ UNCHANGED <<documentation, zodResult, fieldVars, runVars>>

\* lines 65-163: the segments are processed and the record is returned
ParseProcess ==
    /\ pcParse = "process"
    /\ zodResult' = BuildAnnotation(parts)
    /\ pcParse' = "done"
    /\ UNCHANGED <<documentation, parts, fieldVars, runVars>>

NextParse == ParseReturnNull \/ ParseSplit \/ ParseProcess

SpecParse == InitParse /\ [][NextParse]_vars

----------------------------------------------------------------------------
(* One run of the generator: onGenerate, src/src/generator.ts lines 37-197 *)

\* the largest number of fields of a model
MaxFields == 2

\* a DMMF.Field: a required scalar column without default, documentation or @map
Field(name, type) ==
    [name |-> name, dbName |-> "", type |-> type, kind |-> "scalar", isId |-> FALSE,
     isRequired |-> TRUE, isList |-> FALSE, isUpdatedAt |-> FALSE,
     hasDefaultValue |-> FALSE, default |-> "none", documentation |-> NoDoc,
     relationFromFields |-> <<>>]

\* the fields the models of a run are made of
BrandFieldPool ==
    {[Field("id", "String") EXCEPT
         !.isId = TRUE, !.hasDefaultValue = TRUE, !.default = "cuid",
         !.documentation = <<ZodMarker, "cuid", "(", ")", ".", "brand", "(", DQ, "UserId",
                             DQ, ")">>],
     [Field("ownerId", "BigInt") EXCEPT
         !.documentation = <<ZodMarker, "string", "(", ")", ".", "min", "(", "1", ")", ".",
                             "brand", "(", DQ, "UserId", DQ, ")">>],
     [Field("tag", "String") EXCEPT
         !.documentation = <<ZodMarker, "brand", "(", DQ, "Tag", DQ, ")">>],
     [Field("owner", "User") EXCEPT !.kind = "object", !.relationFromFields = <<"ownerId">>],
     [Field("count", "BigInt") EXCEPT
         !.isRequired = FALSE,
         !.documentation = <<ZodMarker, "number", ".", "int", "(", ")", ".", "brand", "(",
                             SQ, "Count", SQ, ")">>]}

\* the fields of the one model whose Create schema is examined
CreateFieldPool ==
    {[Field("id", "String") EXCEPT
         !.isId = TRUE, !.hasDefaultValue = TRUE, !.default = "cuid"],
     [Field("created_at", "DateTime") EXCEPT !.hasDefaultValue = TRUE, !.default = "now"],
     [Field("stamp", "DateTime") EXCEPT !.hasDefaultValue = TRUE, !.default = "now"],
     [Field("posted", "DateTime") EXCEPT
         !.dbName = "posted_at", !.hasDefaultValue = TRUE, !.default = "now"],
     [Field("secret", "String") EXCEPT
         !.documentation = <<"@crud.omit", "(", "create", ")">>],
     [Field("audit_note", "String") EXCEPT !.isRequired = FALSE],
     Field("title", "String")}

\* the documentation of that model
CreateModelDocs ==
    {NoDoc, <<"@crud.create.omit", "(", "[", DQ, "audit_note", DQ, "]", ")">>}

\* the sequences of 1 to n fields of a pool, every name once, a relation with its scalar
RECURSIVE FieldSeqsOfLen(_, _)
FieldSeqsOfLen(pool, n) ==
    IF n = 0 THEN {<<>>}
    ELSE {Append(q, f) : q \in FieldSeqsOfLen(pool, n - 1),
                         f \in pool}

FieldSeqs(pool, n) ==
    {q \in UNION {FieldSeqsOfLen(pool, k) : k \in 1..n} :
        /\ \A i, j \in 1..Len(q) : i # j => q[i].name # q[j].name
        /\ \A i \in 1..Len(q) :
              \A r \in Range(q[i].relationFromFields) : \E j \in 1..Len(q) : q[j].name = r}

\* the names of the models, in the order of the schema file
ModelNames == <<"User", "Post">>

\* the options of a run as the schema hands them in: the input of configValidator
Config(brandRegistry, threeLayers, crudSchemas, camelCase) ==
    [databaseProvider |-> "sqlite", useDefaultValidators |-> TRUE, camelCase |-> camelCase,
     fileName |-> "types.ts", enumFileName |-> None, groupBySchema |-> FALSE,
     generateZodSchemas |-> TRUE, generateBrandRegistry |-> brandRegistry,
     generateThreeLayers |-> threeLayers, generateCrudSchemas |-> crudSchemas,
     crudConfig |-> [outputDir |-> "crud"]]

\* a validator that lets every combination of options pass
configValidatorLenient(config) ==
    [kind |-> "ok",
     config |-> IF ~config.enumFileName.some
                THEN [config EXCEPT !.enumFileName = Some(config.fileName)]
                ELSE config]

\* part_002 lines 143-237: the transform of configValidator fills in enumFileName and throws
\* on groupBySchema with a separate enum file
configValidator(config) ==
    LET filled == IF ~config.enumFileName.some
                  THEN [config EXCEPT !.enumFileName = Some(config.fileName)]
                  ELSE config
    IN  IF filled.groupBySchema /\ filled.enumFileName.val # filled.fileName
        THEN [kind |-> "Error"]
        ELSE [kind |-> "ok", config |-> filled]

\* the directories the artifacts go to: the output directory itself (types, enums and base
\* schemas; the type map), brands/, layers/ and crud/
Families == {"base", "typeMap", "brands", "layers", "crud"}

\* generator.ts lines 131-134, 141-144, 155-158, 176 and 183-186: the directory of a
\* family below the output directory, "." for the output directory itself
OutputDir(family) ==
    CASE family \in {"base", "typeMap"} -> "."
      [] family = "brands" -> "brands"
      [] family = "layers" -> "layers"
      [] family = "crud" -> IF runConfig.crudConfig.outputDir # ""
                            THEN runConfig.crudConfig.outputDir ELSE "crud"

\* fs-extra emptyDir on the directory of a family
EmptyDir(family) ==
    [op |-> "emptyDir", family |-> family, dir |-> OutputDir(family), file |-> "",
     ok |-> TRUE]

\* one write of a file; it fails when its directory is among the failing ones
WriteFile(family, file) ==
    [op |-> "writeFile", family |-> family, dir |-> OutputDir(family), file |-> file,
     ok |-> family \notin faults]

\* awaited writes one after the other: the first rejection ends the sequence
AwaitWrites(family, files) ==
    IF family \in faults /\ files # <<>> THEN <<WriteFile(family, Head(files))>>
    ELSE [i \in 1..Len(files) |-> WriteFile(family, files[i])]

\* generateFiles: the types file and, when it has a name of its own, the enums file
generateFiles(config) ==
    <<config.fileName>>
        \o (IF config.enumFileName.val # config.fileName THEN <<config.enumFileName.val>>
            ELSE <<>>)

RunStart ==
    /\ zodSchemas = <<>> /\ brands = <<>> /\ brandedFile = None /\ layerFiles = <<>>
    /\ crudFiles = <<>> /\ console = <<>> /\ fsLog = <<>> /\ pcRun = "config"
    /\ ParseIdle /\ FieldIdle

\* a run over two models with branded fields, on a disk that takes every write
InitRun ==
    /\ \E fs \in FieldSeqs(BrandFieldPool, MaxFields) \X FieldSeqs(BrandFieldPool, MaxFields) :
          datamodel = [i \in 1..2 |->
                          [name |-> ModelNames[i], documentation |-> NoDoc,
                           fields |-> fs[i]]]
    /\ \E b, t, c \in BOOLEAN : runConfig = Config(b, t, c, FALSE)
    /\ faults = {}
    /\ RunStart

\* a run over one model with defaulted and annotated fields, on a disk that takes every
\* write
InitCreate ==
    /\ \E fs \in FieldSeqs(CreateFieldPool, MaxFields), d \in CreateModelDocs :
          datamodel = <<[name |-> ModelNames[1], documentation |-> d, fields |-> fs]>>
    /\ \E b, t, c, cc \in BOOLEAN : runConfig = Config(b, t, c, cc)
    /\ faults = {}
    /\ RunStart

\* generator.ts lines 39-42: validateConfig; the Error of the transform ends the run
ValidateConfig ==
    /\ pcRun = "config"
    /\ LET parsed == configValidator(runConfig)
       IN  IF parsed.kind = "Error"
           THEN /\ pcRun' = "failed"
                /\ UNCHANGED runConfig
           ELSE /\ runConfig' = parsed.config
                /\ pcRun' = "schemas"
    /\ UNCHANGED <<datamodel, zodSchemas, brands, brandedFile, layerFiles, crudFiles, console,
                   fsLog, faults, parseVars, fieldVars>>

\* generator.ts lines 104-112: the base schema of every model, the models sorted by name
GenerateZodSchemas ==
    /\ pcRun = "schemas"
    /\ zodSchemas' =
          IF runConfig.generateZodSchemas
          THEN LET sorted == SortBrands([i \in 1..Len(datamodel) |->
                                  [key |-> datamodel[i].name, value |-> datamodel[i]]])
               IN  [i \in 1..Len(sorted) |->
                      [modelName |-> sorted[i].key,
                       keys |-> BaseSchemaKeys(sorted[i].value, runConfig),
                       fields |-> BaseSchemaFields(sorted[i].value, runConfig)]]
          ELSE <<>>
    /\ pcRun' = "files"
    /\ UNCHANGED <<datamodel, runConfig, brands, brandedFile, layerFiles, crudFiles, console,
                   fsLog, faults, parseVars, fieldVars>>

\* generator.ts lines 114-138: every file of generateFiles is handed to writeFileSafely and
\* Promise.allSettled waits for all of them, whatever their outcome
WriteFiles ==
    /\ pcRun = "files"
    /\ LET files == generateFiles(runConfig)
       IN  fsLog' = fsLog \o [i \in 1..Len(files) |-> WriteFile("base", files[i])]
    /\ pcRun' = "brands"
    /\ UNCHANGED <<datamodel, runConfig, zodSchemas, brands, brandedFile, layerFiles,
                   crudFiles, console, faults, parseVars, fieldVars>>

\* generator.ts lines 140-150 and BrandRegistryGenerator.generate: the directory is emptied,
\* the fields are collected, branded.ts and index.ts are written; the TypeError of
\* determineBaseType and a failed write reject the run
GenerateBrandRegistry ==
    /\ pcRun = "brands"
    /\ runConfig.generateBrandRegistry
    /\ \E collected \in {collectBrandedTypes(datamodel)} :
          IF collected.kind = "TypeError"
          THEN /\ pcRun' = "failed"
               /\ fsLog' = fsLog \o <<EmptyDir("brands")>>
               /\ UNCHANGED <<brands, brandedFile>>
          ELSE /\ brands' = collected.brands
               /\ fsLog' = fsLog \o <<EmptyDir("brands")>>
                              \o AwaitWrites("brands", <<"branded.ts", "index.ts">>)
               /\ IF "brands" \in faults
                  THEN pcRun' = "failed" /\ UNCHANGED brandedFile
                  ELSE /\ brandedFile' = Some(writeRegistryFile(collected.brands))
                       /\ pcRun' = "layers"
    /\ UNCHANGED <<datamodel, runConfig, zodSchemas, layerFiles, crudFiles, console, faults,
                   parseVars, fieldVars>>

\* generator.ts line 140: the registry is not asked for
SkipBrandRegistry ==
    /\ pcRun = "brands"
    /\ ~runConfig.generateBrandRegistry
    /\ pcRun' = "layers"
    /\ UNCHANGED <<datamodel, runConfig, zodSchemas, brands, brandedFile, layerFiles,
                   crudFiles, console, fsLog, faults, parseVars, fieldVars>>

\* generator.ts lines 153-169 and ThreeLayerSchemaGenerator.generate: the directory is
\* emptied, then a file for each model, transform-utils.ts and index.ts are written
GenerateThreeLayers ==
    /\ pcRun = "layers"
    /\ runConfig.generateThreeLayers
    /\ \E files \in {[i \in 1..Len(datamodel) |->
                        generateModelSchemas(datamodel[i],
                            IF runConfig.generateBrandRegistry THEN Some("../brands")
                            ELSE None,
                            runConfig)]} :
          /\ fsLog' = fsLog \o <<EmptyDir("layers")>>
                         \o AwaitWrites("layers",
                               [i \in 1..Len(files) |-> files[i].file]
                                  \o <<"transform-utils.ts", "index.ts">>)
          /\ IF "layers" \in faults
             THEN pcRun' = "failed" /\ UNCHANGED layerFiles
             ELSE layerFiles' = files /\ pcRun' = "typemap"
    /\ UNCHANGED <<datamodel, runConfig, zodSchemas, brands, brandedFile, crudFiles, console,
                   faults, parseVars, fieldVars>>

\* generator.ts line 153: the layers are not asked for
SkipThreeLayers ==
    /\ pcRun = "layers"
    /\ ~runConfig.generateThreeLayers
    /\ pcRun' = "typemap"
    /\ UNCHANGED <<datamodel, runConfig, zodSchemas, brands, brandedFile, layerFiles,
                   crudFiles, console, fsLog, faults, parseVars, fieldVars>>

\* generator.ts lines 172-180 and BrandedTypeMapGenerator.generate: with the base schemas
\* on, type-map.ts is written into the output directory
GenerateTypeMap ==
    /\ pcRun = "typemap"
    /\ IF runConfig.generateZodSchemas
       THEN /\ fsLog' = fsLog \o AwaitWrites("typeMap", <<"type-map.ts">>)
            /\ pcRun' = IF "typeMap" \in faults THEN "failed" ELSE "crud"
       ELSE /\ pcRun' = "crud"
            /\ UNCHANGED fsLog
    /\ UNCHANGED <<datamodel, runConfig, zodSchemas, brands, brandedFile, layerFiles,
                   crudFiles, console, faults, parseVars, fieldVars>>

\* generateZodSchema.ts lines 241-243 and 664-692: the console.log calls for the model
\* named Persona
RECURSIVE PersonaDebug(_, _)
PersonaDebug(models, baseConfig) ==
    IF models = <<>> THEN <<>>
    ELSE (IF Head(models).name = "Persona"
          THEN <<"DEBUG: Persona annotations:">>
                  \o (IF baseConfig.generateThreeLayers
                      THEN <<"DEBUG: Processing Persona model", "DEBUG: Final fieldsToOmit">>
                      ELSE <<>>)
          ELSE <<>>) \o PersonaDebug(Tail(models), baseConfig)

\* generator.ts lines 182-196 and CrudSchemaGenerator.generate, with the crudConfig of the
\* defaults: the directory is emptied, no model is skipped, index.ts is written last
GenerateCrudSchemas ==
    /\ pcRun = "crud"
    /\ runConfig.generateCrudSchemas
    /\ \E files \in {[i \in 1..Len(datamodel) |->
                        generateModelCrudSchemas(datamodel[i], runConfig)]} :
          /\ fsLog' = fsLog \o <<EmptyDir("crud")>>
                         \o AwaitWrites("crud",
                               [i \in 1..Len(files) |-> files[i].file] \o <<"index.ts">>)
          /\ IF "crud" \in faults
             THEN pcRun' = "failed" /\ UNCHANGED crudFiles
             ELSE crudFiles' = files /\ pcRun' = "done"
    /\ console' = console \o PersonaDebug(datamodel, runConfig)
    /\ UNCHANGED <<datamodel, runConfig, zodSchemas, brands, brandedFile, layerFiles, faults,
                   parseVars, fieldVars>>

\* generator.ts line 182: the CRUD schemas are not asked for
SkipCrudSchemas ==
    /\ pcRun = "crud"
    /\ ~runConfig.generateCrudSchemas
    /\ pcRun' = "done"
    /\ UNCHANGED <<datamodel, runConfig, zodSchemas, brands, brandedFile, layerFiles,
                   crudFiles, console, fsLog, faults, parseVars, fieldVars>>

NextRun ==
    \/ ValidateConfig
    \/ GenerateZodSchemas
    \/ WriteFiles
    \/ GenerateBrandRegistry
    \/ SkipBrandRegistry
    \/ GenerateThreeLayers
    \/ SkipThreeLayers
    \/ GenerateTypeMap
    \/ GenerateCrudSchemas
    \/ SkipCrudSchemas

SpecRun == InitRun /\ [][NextRun]_vars

SpecCreate == InitCreate /\ [][NextRun]_vars

\* the fields of the one model whose Update schema is examined
UpdateFieldPool ==
    {[Field("id", "String") EXCEPT
         !.isId = TRUE, !.hasDefaultValue = TRUE, !.default = "cuid"],
     [Field("post_id", "String") EXCEPT
         !.isId = TRUE,
         !.documentation = <<ZodMarker, "cuid", "(", ")", ".", "brand", "(", DQ, "Uid", DQ,
                             ")">>],
     [Field("updatedAt", "DateTime") EXCEPT !.hasDefaultValue = TRUE, !.default = "now"],
     [Field("created_at", "DateTime") EXCEPT !.hasDefaultValue = TRUE, !.default = "now"],
     Field("email", "String"),
     Field("role", "String"),
     [Field("nick", "String") EXCEPT !.isRequired = FALSE],
     [Field("secret", "String") EXCEPT
         !.documentation = <<"@crud.omit", "(", "update", ")">>]}

\* the documentation of that model
UpdateModelDocs ==
    {NoDoc,
     <<"@crud.update.omit", "(", "[", DQ, "nick", DQ, "]", ")", NL,
       "@crud.update.immutable", "(", "[", DQ, "role", DQ, "]", ")", NL,
       "@crud.update.refine", "(", DQ, "Give", SP, "a", SP, "field", DQ, ")">>}

\* a model has at most one field marked @id
OneId(fs) == Cardinality({k \in 1..Len(fs) : fs[k].isId}) <= 1

\* a run over one model with timestamps and update annotations
InitUpdate ==
    /\ \E fs \in {q \in FieldSeqs(UpdateFieldPool, MaxFields) : OneId(q)},
          d \in UpdateModelDocs :
          datamodel = <<[name |-> ModelNames[1], documentation |-> d, fields |-> fs]>>
    /\ \E b, t, c, cc \in BOOLEAN : runConfig = Config(b, t, c, cc)
    /\ faults = {}
    /\ RunStart

SpecUpdate == InitUpdate /\ [][NextRun]_vars

\* the data models of the runs whose file-system calls are examined
OutputModels ==
    {<<[name |-> "User", documentation |-> NoDoc,
        fields |-> << [Field("id", "String") EXCEPT !.isId = TRUE] >>]>>,
     <<[name |-> "User", documentation |-> NoDoc,
        fields |-> << [Field("id", "String") EXCEPT !.isId = TRUE] >>],
       [name |-> "Post", documentation |-> NoDoc,
        fields |-> <<Field("title", "String")>>]>>}

\* the enumFileName option: left out, the name of the types file, a name of its own
EnumFileNames == {None, Some("types.ts"), Some("enums.ts")}

\* part_002 line 203: crudConfig.outputDir is any string: the default, a directory of
\* another family, the output directory itself
CrudOutputDirs == {"crud", "brands", "."}

\* a run under any combination of the options, on a disk where the writes into any set of
\* directories may fail
InitOutput ==
    /\ datamodel \in OutputModels
    /\ \E z, b, t, c, g \in BOOLEAN, e \in EnumFileNames, o \in CrudOutputDirs :
          runConfig = [Config(b, t, c, FALSE) EXCEPT
                          !.generateZodSchemas = z, !.groupBySchema = g, !.enumFileName = e,
                          !.crudConfig.outputDir = o]
    /\ faults \in SUBSET Families
    /\ RunStart

SpecOutput == InitOutput /\ [][NextRun]_vars

\* the fields of the one model whose layer file is examined
LayerFieldPool ==
    {[Field("id", "String") EXCEPT !.isId = TRUE],
     Field("view_count", "BigInt"),
     [Field("quota", "BigInt") EXCEPT !.isRequired = FALSE],
     [Field("serial", "BigInt") EXCEPT
         !.documentation = <<ZodMarker, "number", "(", ")", ".", "brand", "(", DQ, "Serial",
                             DQ, ")">>],
     [Field("batch", "BigInt") EXCEPT
         !.isRequired = FALSE,
         !.documentation = <<ZodMarker, "number", "(", ")", ".", "brand", "(", DQ, "Batch",
                             DQ, ")">>],
     Field("price", "Decimal"),
     Field("title", "String"),
     [Field("author", "User") EXCEPT !.kind = "object"]}

\* a run over one model with large-integer, decimal and relation fields, on a disk that
\* takes every write
InitLayers ==
    /\ \E fs \in FieldSeqs(LayerFieldPool, MaxFields) :
          datamodel = <<[name |-> ModelNames[1], documentation |-> NoDoc, fields |-> fs]>>
    /\ \E b, t, c, cc \in BOOLEAN : runConfig = Config(b, t, c, cc)
    /\ faults = {}
    /\ RunStart

SpecLayers == InitLayers /\ [][NextRun]_vars

----------------------------------------------------------------------------
(* C2 - C6: the brand registry and the references to it *)

\* the positions, in model order then field order, of the fields whose documentation
\* the registry reads a brand from
DeclaringSites ==
    {k \in 1..Len(Sites(datamodel)) :
        extractBrandInfo(Sites(datamodel)[k].field.documentation).some}

\* the brand name the field at site k declares
DeclaredName(k) == extractBrandInfo(Sites(datamodel)[k].field.documentation).val.brandName

\* the registry entry the field at site k resolves to on its own
ResolvedEntry(k) ==
    LET site == Sites(datamodel)[k]
        info == extractBrandInfo(site.field.documentation).val
    IN  [name |-> info.brandName,
         chain |-> ValidatorChain(info),
         usedIn |-> <<site.model.name, site.field.name>>]

\* the names branded.ts exports
ExportedNames == {brandedFile.val[k].name : k \in 1..Len(brandedFile.val)}

\* the number of export statements of branded.ts for a name
ExportCount(name) ==
    Cardinality({k \in 1..Len(brandedFile.val) : brandedFile.val[k].name = name})

\* C2: the registry file has exactly one exported binding for every distinct brand name,
\* however many fields of however many models declare the name
C2_OneExportPerBrand ==
    brandedFile.some =>
        /\ \A k \in DeclaringSites : ExportCount(DeclaredName(k)) = 1
        /\ \A name \in ExportedNames : ExportCount(name) = 1

\* three fields of two models declare one name and the registry is written
C2_Witness ==
    /\ brandedFile.some
    /\ \E i, j, k \in DeclaringSites :
          /\ i < j /\ j < k
          /\ DeclaredName(i) = DeclaredName(j) /\ DeclaredName(j) = DeclaredName(k)
          /\ Sites(datamodel)[i].model.name # Sites(datamodel)[k].model.name

ConflictingBrand ==
    \E j, k \in DeclaringSites :
        /\ DeclaredName(j) = DeclaredName(k)
        /\ ResolvedEntry(j).chain # ResolvedEntry(k).chain

\* C4: when two fields declare the same brand name with different chains, the registry
\* pass surfaces a diagnostic: the run writes a message or is rejected
C4_ConflictSurfaced ==
    (pcRun \in {"layers", "typemap", "crud", "done", "failed"} /\ runConfig.generateBrandRegistry
        /\ ConflictingBrand)
    => (console # <<>> \/ pcRun = "failed")

\* the files written under layers/ and crud/
GeneratedFiles == Range(layerFiles) \cup
                  {[file |-> f.file, importsBrands |-> f.importsBrands,
                    brandRefs |-> f.brandRefs] : f \in Range(crudFiles)}

\* C5: every brands.X of a generated layer or CRUD file resolves: the file imports the
\* brands namespace and the registry of the run exports X
C5_BrandRefsResolve ==
    pcRun = "done" =>
        \A f \in GeneratedFiles : \A X \in f.brandRefs :
            /\ f.importsBrands
            /\ brandedFile.some
            /\ X \in ExportedNames

\* the brand names parseZodAnnotations extracts from the documentation of the fields
ParserBrandNames ==
    {Text(parseZodAnnotations(Sites(datamodel)[k].field.documentation).brand.val) :
        k \in {j \in 1..Len(Sites(datamodel)) :
                  LET a == parseZodAnnotations(Sites(datamodel)[j].field.documentation)
                  IN  a.kind = "annotation" /\ a.brand.some}}

\* C6: the names the registry exports are the names the annotation parser extracts
C6_RegistryMatchesParser ==
    brandedFile.some => ExportedNames = ParserBrandNames

----------------------------------------------------------------------------
(* C10: the Create schema *)

\* the keys the Create schema of a CRUD file accepts
Accepted(f) ==
    IF f.create.path = "composition"
    THEN UNION {zodSchemas[k].keys : k \in {j \in 1..Len(zodSchemas) :
                                               zodSchemas[j].modelName = f.modelName}}
            \ f.create.omit
    ELSE f.create.fields

\* the field has the default now(), is named in @crud.create.omit of its model, or is
\* annotated @crud.omit with create
OmittedByRule(field, model) ==
    \/ field.hasDefaultValue /\ field.default = "now"
    \/ field.name \in parseModelAnnotations(model).createOmit
    \/ "create" \in parseModelAnnotations(model).omitFrom[field.name]

\* C10: on both paths the Create schema accepts no field with the default now() and no
\* field omitted from create by annotation
C10_CreateOmits ==
    pcRun = "done" =>
        \A i \in 1..Len(crudFiles) :
            \A k \in 1..Len(datamodel[i].fields) :
                OmittedByRule(datamodel[i].fields[k], datamodel[i])
                    => normalizeCase(DbOrName(datamodel[i].fields[k]), runConfig)
                          \notin Accepted(crudFiles[i])

\* C10 with the camelCase option off
C10_CreateOmitsPlainNames ==
    ~runConfig.camelCase => C10_CreateOmits

----------------------------------------------------------------------------
(* C11 - C13: the Update schema *)

\* the keys of the base schema of the model of a CRUD file
BaseKeysOf(f) ==
    UNION {zodSchemas[k].keys : k \in {j \in 1..Len(zodSchemas) :
                                          zodSchemas[j].modelName = f.modelName}}

\* the keys the Update schema of a CRUD file accepts
UpdateAccepted(f) ==
    (IF f.update.path = "composition" THEN BaseKeysOf(f) \ f.update.omit
     ELSE {x.name : x \in f.update.fields})
    \cup (IF f.update.id.some THEN {f.update.id.val.name} ELSE {})

\* what the object schema hands to its refinement: the keys of the payload it knows
Parsed(f, payload) == payload \cap UpdateAccepted(f)

\* the refinement of the Update schema of a CRUD file accepts the payload
RefinementAccepts(f, payload) ==
    IF f.update.refineId.some
    THEN UpdateRefinement(f.update.refineId.val, Parsed(f, payload))
    ELSE UpdateRefinementNoId(Parsed(f, payload))

\* C11: the refinement of every Update schema rejects the payload whose only key is the
\* identifier and accepts a payload of the identifier and one more field of the schema
C11_UpdateRefinement ==
    pcRun = "done" =>
        \A i \in 1..Len(crudFiles) :
            crudFiles[i].update.id.some =>
                LET id == crudFiles[i].update.id.val.name
                IN  /\ ~RefinementAccepts(crudFiles[i], {id})
                    /\ \A k \in UpdateAccepted(crudFiles[i]) \ {id} :
                          RefinementAccepts(crudFiles[i], {id, k})

\* an Update schema with an identifier and another field has been generated on each path
C11_Witness ==
    /\ pcRun = "done"
    /\ \E i \in 1..Len(crudFiles) :
          /\ crudFiles[i].update.id.some
          /\ crudFiles[i].update.path = "composition"
          /\ runConfig.camelCase
          /\ crudFiles[i].update.id.val.name = "postId"
          /\ UpdateAccepted(crudFiles[i]) \ {"postId"} # {}

\* the field names the specification bars from every Update schema
UpdateBarred(model) ==
    timestampFields \cup parseModelAnnotations(model).updateOmit
        \cup parseModelAnnotations(model).updateImmutable

\* C12: whatever the path, the Update schema accepts no created/updated timestamp field and
\* no field listed in @crud.update.omit or @crud.update.immutable, and its refinement
\* carries the annotated @crud.update.refine message when there is one
C12_UpdateOmissions ==
    pcRun = "done" =>
        \A i \in 1..Len(crudFiles) :
            /\ UpdateAccepted(crudFiles[i]) \cap UpdateBarred(datamodel[i]) = {}
            /\ parseModelAnnotations(datamodel[i]).updateRefine.some
                  => crudFiles[i].update.refineMessage
                        = parseModelAnnotations(datamodel[i]).updateRefine.val

\* C12 on the composition path with the camelCase option off
C12_CompositionPlainNames ==
    pcRun = "done" =>
        \A i \in 1..Len(crudFiles) :
            (crudFiles[i].update.path = "composition" /\ ~runConfig.camelCase) =>
                /\ UpdateAccepted(crudFiles[i]) \cap UpdateBarred(datamodel[i])
                      \subseteq {crudFiles[i].update.id.val.name}
                /\ parseModelAnnotations(datamodel[i]).updateRefine.some
                      => crudFiles[i].update.refineMessage
                            = parseModelAnnotations(datamodel[i]).updateRefine.val

\* a field of the Update schema of a CRUD file is optional
UpdateOptional(f, key) ==
    IF f.update.path = "composition" THEN f.update.partial
    ELSE \A x \in f.update.fields : x.name = key => x.optionals >= 1

\* the brands that resolve for the identifier of a model: the one its documentation
\* declares and the implicit <ModelName>Id
IdBrands(model) ==
    LET Ids == {k \in 1..Len(model.fields) : model.fields[k].isId}
        idField == model.fields[CHOOSE k \in Ids : \A j \in Ids : k <= j]
        a == parseZodAnnotations(idField.documentation)
    IN  {model.name \o "Id"}
           \cup (IF a.kind = "annotation" /\ a.brand.some THEN {Text(a.brand.val)} ELSE {})

----------------------------------------------------------------------------
(* C14 - C16: the calls on the file system *)

\* the directory of a family was emptied before the call at position k of the log
EmptiedBefore(family, k) == \E j \in 1..(k - 1) : fsLog[j] = EmptyDir(family)

\* every write into a directory of the given families follows the emptying of it
EmptyFirst(families) ==
    \A k \in 1..Len(fsLog) :
        (fsLog[k].op = "writeFile" /\ fsLog[k].family \in families)
            => EmptiedBefore(fsLog[k].family, k)

\* C14: for each of the base schemas, the brand registry, the layers and the CRUD schemas,
\* no file is written before the directory of the family has been emptied
C14_EmptiedBeforeWritten == EmptyFirst({"base", "brands", "layers", "crud"})

\* C14 for the three families that have a generator class of their own
C14_GeneratorsEmptyFirst == EmptyFirst({"brands", "layers", "crud"})

\* C15: a run in which the write of a file failed does not complete successfully
C15_FailedWriteFailsRun ==
    pcRun = "done" => \A k \in 1..Len(fsLog) : fsLog[k].ok

\* C15 for the writes the generator classes and the type map await
C15_AwaitedWriteFailsRun ==
    pcRun = "done" => \A k \in 1..Len(fsLog) : fsLog[k].family # "base" => fsLog[k].ok

\* groupBySchema is asked for together with an enum file of its own
InvalidConfig ==
    /\ runConfig.groupBySchema
    /\ runConfig.enumFileName.some
    /\ runConfig.enumFileName.val # runConfig.fileName

\* C16: under groupBySchema with an enum file name other than the types file name the run
\* goes from the validation of the options to its rejection and to nothing else: no file
\* is written and no directory is emptied
C16_InvalidConfigAborts ==
    InvalidConfig => (pcRun \in {"config", "failed"} /\ fsLog = <<>>)

\* a run rejected for its options
C16_Witness == InvalidConfig /\ pcRun = "failed" /\ faults = {}

----------------------------------------------------------------------------
(* C17: the base validator of a scalar field *)

\* part_001 lines 594-614: the table of the documentation
DocumentedTable(provider, type) ==
    CASE provider = "sqlite" ->
            (CASE type = "Boolean" -> Z("number")
               [] type = "DateTime" -> Z("string")
               [] type = "BigInt" -> Z("number")
               [] type = "Decimal" -> Z("number"))
      [] provider = "postgresql" ->
            (CASE type = "Boolean" -> Z("boolean")
               [] type = "DateTime" -> <<"z", ".", "coerce", ".", "date", "(", ")">>
               [] type = "BigInt" -> Z("string")
               [] type = "Decimal" -> Z("string"))
      [] provider = "mysql" ->
            (CASE type = "Boolean" -> Z("number")
               [] type = "DateTime" -> <<"z", ".", "coerce", ".", "date", "(", ")">>
               [] type = "BigInt" -> Z("number")
               [] type = "Decimal" -> Z("string"))

\* an expression starts with the given tokens
StartsWith(e, prefix) == Len(e) >= Len(prefix) /\ SubSeq(e, 1, Len(prefix)) = prefix

\* a Boolean, DateTime, BigInt or Decimal field without documentation has been written for
\* one of the three engines of the table
TableCase ==
    /\ pcField = "done"
    /\ fieldArgs.kind = "scalar"
    /\ fieldArgs.documentation = NoDoc
    /\ fieldArgs.type \in {"Boolean", "DateTime", "BigInt", "Decimal"}
    /\ fieldArgs.config.databaseProvider \in {"sqlite", "postgresql", "mysql"}

\* C17: the expression written for a scalar field starts with the validator the documented
\* table gives for its type and the engine
C17_TypeTable ==
    TableCase =>
        StartsWith(emitted, DocumentedTable(fieldArgs.config.databaseProvider, fieldArgs.type))

\* C17 without the three entries the code departs from
C17_TypeTableButThree ==
    (/\ TableCase
     /\ <<fieldArgs.config.databaseProvider, fieldArgs.type>>
           \notin {<<"sqlite", "Boolean">>, <<"sqlite", "Decimal">>, <<"mysql", "Boolean">>})
    => StartsWith(emitted, DocumentedTable(fieldArgs.config.databaseProvider, fieldArgs.type))

----------------------------------------------------------------------------
(* C18 - C20: the layer files *)

\* the schema a layer file binds for a layer
LayerSchema(f, layer) ==
    f.schemas[CHOOSE i \in 1..Len(layers) : layers[i] = layer]

\* the names a layer file exports
LayerExports(f) ==
    {f.schemas[i].name : i \in 1..Len(f.schemas)}
        \cup {f.transforms[i].name : i \in 1..Len(f.transforms)}

\* the layer file of model i has been written
LayerFileOf(i) == pcRun \in {"typemap", "crud", "done"} /\ i \in 1..Len(layerFiles)

\* C18: the layer file of a model M exports MDBSchema, MRuntimeSchema and MAPISchema and
\* the transforms MDBToRuntime, MRuntimeToAPI and MDBToAPI, M in its original case, and
\* MDBToAPI is MDBToRuntime followed by MRuntimeToAPI
C18_LayerExports ==
    \A i \in 1..Len(datamodel) :
        LayerFileOf(i) =>
            LET M == datamodel[i].name
            IN  /\ {M \o "DBSchema", M \o "RuntimeSchema", M \o "APISchema",
                    M \o "DBToRuntime", M \o "RuntimeToAPI", M \o "DBToAPI"}
                      \subseteq LayerExports(layerFiles[i])
                /\ \E k \in 1..Len(layerFiles[i].transforms) :
                      /\ layerFiles[i].transforms[k].name = M \o "DBToAPI"
                      /\ layerFiles[i].transforms[k].body
                            = <<M \o "DBToRuntime", M \o "RuntimeToAPI">>

\* C18 with the first letters of the transforms as the code writes them
C18_LayerExportsLowerCase ==
    \A i \in 1..Len(datamodel) :
        LayerFileOf(i) =>
            LET M == datamodel[i].name
                m == toLowerCase(M)
            IN  /\ {M \o "DBSchema", M \o "RuntimeSchema", M \o "APISchema",
                    m \o "DBToRuntime", m \o "RuntimeToAPI", m \o "DBToAPI"}
                      \subseteq LayerExports(layerFiles[i])
                /\ \E k \in 1..Len(layerFiles[i].transforms) :
                      /\ layerFiles[i].transforms[k].name = m \o "DBToAPI"
                      /\ layerFiles[i].transforms[k].body
                            = <<m \o "DBToRuntime", m \o "RuntimeToAPI">>

\* the layer overrides the field at position k of model i
Overrides(i, layer, k) ==
    normalizeCase(DbOrName(datamodel[i].fields[k]), runConfig)
        \in {o.name : o \in LayerSchema(layerFiles[i], layer).overrides}

C20_BrandReplacesTransform ==
    \A i \in 1..Len(datamodel) :
        LayerFileOf(i) =>
            \A k \in 1..Len(datamodel[i].fields) :
                (/\ datamodel[i].fields[k].kind # "object"
                 /\ extractBrandFromDocs(datamodel[i].fields[k].documentation).some
                 /\ Overrides(i, "Runtime", k))
                => \A o \in LayerSchema(layerFiles[i], "Runtime").overrides :
                      o.name = normalizeCase(DbOrName(datamodel[i].fields[k]), runConfig)
                         => o.expr.calls = <<>> /\ o.expr.brand.some

----------------------------------------------------------------------------
(* C21: the leading comment of a field *)

\* the lines of a documentation, trimmed
DocLines(doc) ==
    LET lines == SplitOn(doc, NL) IN {Trim(lines[k]) : k \in 1..Len(lines)}

\* s holds the tokens of sub one after the other
ContainsSeq(s, sub) ==
    \E p \in 0..(Len(s) - Len(sub)) : SubSeq(s, p + 1, p + Len(sub)) = sub

\* a line of the leading comment holds the tokens of sub
InComment(sub) == \E k \in 1..Len(comment) : ContainsSeq(comment[k], sub)

\* C21: the leading comment written for a documented field holds every line of the
\* documentation that has no annotation, holds no @kyselyType marker, and does not hold
\* the annotation parseZodAnnotations reads, with or without its leading slashes
C21_CommentStripsAnnotations ==
    (pcField = "done" /\ fieldArgs.documentation # NoDoc) =>
        /\ \A line \in DocLines(fieldArgs.documentation) :
              (/\ line # <<>>
               /\ ~Contains(line, ZodMarker)
               /\ ~Contains(line, "@kyselyType"))
              => \E k \in 1..Len(comment) : comment[k] = line
        /\ ~InComment(<<"@kyselyType">>)
        /\ ZodMatch(fieldArgs.documentation).some
              => ~InComment(<<ZodMarker>> \o ZodMatch(fieldArgs.documentation).val)

\* C21 for the annotations that stand at the start of a line behind "/// "
C21_SlashedAnnotationsStripped ==
    (pcField = "done" /\ fieldArgs.documentation # NoDoc) =>
        /\ \A line \in DocLines(fieldArgs.documentation) :
              (/\ line # <<>>
               /\ ~Contains(line, ZodMarker)
               /\ ~Contains(line, "@kyselyType"))
              => \E k \in 1..Len(comment) : comment[k] = line
        /\ ~InComment(<<"@kyselyType">>)
        /\ ~InComment(<<TripleSlash, ZodMarker>>)

----------------------------------------------------------------------------
(* C22: the validators appended by default *)

\* the validators parsed from the documentation of the field
ParsedValidators ==
    LET a == parseZodAnnotations(fieldArgs.documentation)
    IN  IF a.kind = "annotation" THEN a.validators ELSE <<>>

\* the number of calls .name( in an expression
CallCount(e, name) ==
    Cardinality({k \in 1..(Len(e) - 2) : e[k] = "." /\ e[k + 1] = name /\ e[k + 2] = "("})

\* the calls .name( of the written expression that the annotation did not bring
AutoAppended(name) == CallCount(emitted, name) - CallCount(Flatten(ParsedValidators), name)

\* a scalar field has been written from the primitive of the type mapper: no type override
\* and no validator that stands in for the primitive
MappedBasePath ==
    /\ pcField = "done"
    /\ fieldArgs.kind = "scalar"
    /\ ~Contains(fieldArgs.documentation, "@kyselyType")
    /\ \A k \in 1..Len(ParsedValidators) : ~IsTopLevelEmit(ParsedValidators[k])

\* the default of the field names the generation function
DefaultNames(fn) == fieldArgs.hasDefaultValue /\ fieldArgs.default = fn

\* C22: on the mapped-primitive path, with default validators on, .cuid2() and .uuid() are
\* appended exactly when the String field's default names cuid or uuid and the annotation
\* has no such validator, .int() is appended to an Int field exactly when the annotation
\* has no int validator, so that the expression of an Int field always has one; with
\* default validators off nothing is appended
C22_DefaultValidators ==
    MappedBasePath =>
        LET on == fieldArgs.config.useDefaultValidators
            Want(b) == IF b THEN 1 ELSE 0
        IN  /\ AutoAppended("cuid2")
                  = Want(/\ on /\ fieldArgs.type = "String" /\ DefaultNames("cuid")
                         /\ CallCount(Flatten(ParsedValidators), "cuid2") = 0
                         /\ CallCount(Flatten(ParsedValidators), "cuid") = 0)
            /\ AutoAppended("uuid")
                  = Want(/\ on /\ fieldArgs.type = "String" /\ DefaultNames("uuid")
                         /\ CallCount(Flatten(ParsedValidators), "uuid") = 0)
            /\ AutoAppended("int")
                  = Want(/\ on /\ fieldArgs.type = "Int"
                         /\ CallCount(Flatten(ParsedValidators), "int") = 0)
            /\ (on /\ fieldArgs.type = "Int") => CallCount(emitted, "int") >= 1

\* C22 for annotations whose int validator, if any, is written without arguments
C22_DefaultValidatorsPlainInt ==
    (MappedBasePath /\ ~Contains(fieldArgs.documentation, "{")) => C22_DefaultValidators

----------------------------------------------------------------------------
(* C23: the primitive of the CRUD generator's field-by-field path *)

\* the field is written from the table of the CRUD generator: no annotation replaces it
CrudPrimitiveWritten ==
    pcField = "crud" /\ ~Contains(fieldArgs.documentation, ZodMarker)

\* the primitive of the type mapper, inside z.array(...) for a list
MappedPrimitive ==
    LET m == getZodMethodForPrismaType(fieldArgs.type, fieldArgs.config)
    IN  IF fieldArgs.list THEN <<"z", ".", "array", "(">> \o m \o <<")">> ELSE m

\* C23: on every engine and for every scalar type the primitive that the CRUD generator
\* writes field by field is the primitive the type mapper returns
C23_CrudPrimitiveIsMapped == CrudPrimitiveWritten => emitted = MappedPrimitive

\* C23 for the types whose primitive does not depend on the engine in either table
C23_CrudPrimitiveIsMappedPlain ==
    (CrudPrimitiveWritten /\ fieldArgs.type \in {"String", "Boolean", "Float", "Bytes"})
        => emitted = MappedPrimitive

----------------------------------------------------------------------------
(* C24: a type override without a schema reference *)

\* the members of the field's type override, none without an override
OverrideMembers ==
    LET typeOverride == generateTypeOverrideFromDocumentation(fieldArgs.documentation)
    IN  IF typeOverride.some
        THEN [k \in 1..Len(SplitOn(typeOverride.val, "|")) |->
                 Trim(SplitOn(typeOverride.val, "|")[k])]
        ELSE <<>>

\* a field has been written whose type override names no schema reference at all
UnresolvedOverrideWritten ==
    /\ pcField = "done"
    /\ OverrideMembers # <<>>
    /\ \A k \in 1..Len(OverrideMembers) : ~ImportMatch(OverrideMembers[k]).some

\* C24: a field whose @kyselyType names no resolvable schema reference, single type or
\* union, is written with the unknown validator
C24_UnresolvedOverrideUnknown ==
    UnresolvedOverrideWritten => StartsWith(emitted, Z("unknown"))

\* C24 for a union: none of its members resolves and the field is written z.unknown()
C24_UnresolvedUnionUnknown ==
    (UnresolvedOverrideWritten /\ Len(OverrideMembers) > 1)
        => StartsWith(emitted, Z("unknown"))

----------------------------------------------------------------------------
(* C25: the keys handed to .omit() by the Update schema *)

\* C25: every key in the omit set of an Update schema written by composition is a key of
\* the model's base schema
C25_UpdateOmitKeysExist ==
    pcRun = "done" =>
        \A i \in 1..Len(crudFiles) :
            crudFiles[i].update.path = "composition"
                => crudFiles[i].update.omit \subseteq BaseKeysOf(crudFiles[i])

\* C25 for a model without @crud.update annotations: the timestamp fields and the fields
\* marked @crud.omit(update) that are omitted are keys of the base schema
C25_UnannotatedOmitKeysExist ==
    pcRun = "done" =>
        \A i \in 1..Len(crudFiles) :
            (crudFiles[i].update.path = "composition" /\ datamodel[i].documentation = NoDoc)
                => /\ crudFiles[i].update.omit \subseteq BaseKeysOf(crudFiles[i])
                   /\ BaseKeysOf(crudFiles[i]) # {}

----------------------------------------------------------------------------
(* C26: the files of one family and the emptying by another *)

\* every artifact family is asked for
AllFamiliesOn ==
    /\ runConfig.generateZodSchemas /\ runConfig.generateBrandRegistry
    /\ runConfig.generateThreeLayers /\ runConfig.generateCrudSchemas

\* the directory d lies in the directory e that is emptied
Within(d, e) == e = "." \/ e = d

\* the file written by the call at position k of the log is deleted by a later emptying
\* that another family's pass performs
DeletedByOtherPass(k) ==
    \E j \in (k + 1)..Len(fsLog) :
        /\ fsLog[j].op = "emptyDir"
        /\ fsLog[j].family # fsLog[k].family
        /\ Within(fsLog[k].dir, fsLog[j].dir)

\* C26: after a run that completes with every family on, whatever crudConfig.outputDir is,
\* no file written by one pass has been deleted by the emptying of another family's pass
C26_EarlierFilesKept ==
    (pcRun = "done" /\ AllFamiliesOn) =>
        \A k \in 1..Len(fsLog) :
            (fsLog[k].op = "writeFile" /\ fsLog[k].ok) => ~DeletedByOtherPass(k)

\* C26 for the default crudConfig.outputDir
C26_EarlierFilesKeptDefaultDir ==
    (pcRun = "done" /\ AllFamiliesOn /\ runConfig.crudConfig.outputDir = "crud") =>
        /\ Len(fsLog) > 0
        /\ \A k \in 1..Len(fsLog) :
              (fsLog[k].op = "writeFile" /\ fsLog[k].ok) => ~DeletedByOtherPass(k)

----------------------------------------------------------------------------
(* C27: the parsed validators in the written expression *)

\* the first position from start on where sub stands in e, 0 when there is none
FindFrom(e, sub, start) ==
    LET Hits == {p \in start..(Len(e) - Len(sub) + 1) : SubSeq(e, p, p + Len(sub) - 1) = sub}
    IN  IF Hits = {} THEN 0 ELSE CHOOSE p \in Hits : \A q \in Hits : p <= q

\* the call of a validator as it is to be written: its name and arguments, .nullable()
\* written .nullish()
WrittenCall(v) == Tail(NullableToNullish(v))

\* the calls of the validators stand in e from start on, one after the other
RECURSIVE InOrder(_, _, _)
InOrder(e, validators, start) ==
    IF validators = <<>> THEN TRUE
    ELSE LET p == FindFrom(e, WrittenCall(Head(validators)), start)
         IN  p # 0 /\ InOrder(e, Tail(validators), p + Len(WrittenCall(Head(validators))))

\* a scalar field without type override has been written
PlainScalarWritten ==
    /\ pcField = "done"
    /\ fieldArgs.kind = "scalar"
    /\ ~Contains(fieldArgs.documentation, "@kyselyType")

\* the positions of the parsed validators that stand in for the primitive
TopLevelPositions == {k \in 1..Len(ParsedValidators) : IsTopLevelEmit(ParsedValidators[k])}

\* C27: every parsed validator of a scalar field without type override stands in the
\* written expression, in the parsed order
C27_NoValidatorLost == PlainScalarWritten => InOrder(emitted, ParsedValidators, 1)

\* C27 for annotations with at most one validator that stands in for the primitive, and
\* that one first
C27_NoValidatorLostTopFirst ==
    (PlainScalarWritten /\ TopLevelPositions \subseteq {1})
        => InOrder(emitted, ParsedValidators, 1)

----------------------------------------------------------------------------
(* C28: a validator with a message object among its arguments *)

\* the segments of the parsed annotation that are validators whose arguments hold an object
\* with a message
MessageParts ==
    {k \in 1..Len(parts) :
        LET vm == ValidatorMatch(parts[k])
        IN  /\ vm.matched
            /\ vm.validatorName \notin {<<"brand">>, <<"describe">>}
            /\ vm.args.some
            /\ Contains(vm.args.val, "{") /\ Contains(vm.args.val, "}")
            /\ MessageMatch(vm.args.val).some}

\* the message of such a segment is recorded under the name of its validator
MessageRecorded(k) ==
    <<ValidatorMatch(parts[k]).validatorName, MessageMatch(ValidatorMatch(parts[k]).args.val).val>>
        \in zodResult.customErrors

\* C28: a validator whose arguments hold an object with a message is kept with all its
\* arguments, the object's other keys included, and its message is recorded
C28_MessageArgsKept ==
    (pcParse = "done" /\ zodResult.kind = "annotation") =>
        \A k \in MessageParts :
            /\ \E j \in 1..Len(zodResult.validators) :
                  zodResult.validators[j] = <<".">> \o parts[k]
            /\ MessageRecorded(k)

\* C28 for the message alone: it is recorded, and a validator of that name carries it;
\* when the object with the message is the only argument the validator is kept whole
C28_MessageKept ==
    (pcParse = "done" /\ zodResult.kind = "annotation") =>
        \A k \in MessageParts :
              LET vm == ValidatorMatch(parts[k])
                  MessageObject == <<"{", SP, "message", ":", SP, DQ>>
                                      \o MessageMatch(vm.args.val).val \o <<DQ, SP, "}">>
              IN  /\ MessageRecorded(k)
                  /\ \E j \in 1..Len(zodResult.validators) :
                        zodResult.validators[j] = Call(vm.validatorName, MessageObject)
                  /\ vm.args.val = MessageObject
                        => \E j \in 1..Len(zodResult.validators) :
                              zodResult.validators[j] = <<".">> \o parts[k]

----------------------------------------------------------------------------
(* C29: the chain of a brand in the registry and in the base schema *)

\* the expressions the base schemas hold for the field an export of branded.ts names
BaseExprsOf(entry) ==
    UNION {{x.expr : x \in {y \in zodSchemas[k].fields : y.field = entry.usedIn[2]}} :
              k \in {j \in 1..Len(zodSchemas) : zodSchemas[j].modelName = entry.usedIn[1]}}

\* the documentation of the field an export of branded.ts names
DocsOf(entry) ==
    UNION {{datamodel[i].fields[k].documentation :
               k \in {j \in 1..Len(datamodel[i].fields) :
                         datamodel[i].fields[j].name = entry.usedIn[2]}} :
              i \in {j \in 1..Len(datamodel) : datamodel[j].name = entry.usedIn[1]}}

\* both the registry and the base schemas have been written
RegistryAndBaseWritten == pcRun = "done" /\ brandedFile.some /\ zodSchemas # <<>>

\* C29: the chain branded.ts exports for a brand is the chain the base schema writes for
\* the field it was read from: same primitive, same validators in the same order, same
\* brand marker
C29_RegistryChainIsBaseChain ==
    RegistryAndBaseWritten =>
        \A k \in 1..Len(brandedFile.val) :
            \A e \in BaseExprsOf(brandedFile.val[k]) : StartsWith(e, brandedFile.val[k].chain)

\* C29 for the annotations that begin with the primitive itself, string or number
C29_RegistryChainIsBaseChainPrimitive ==
    RegistryAndBaseWritten =>
        \A k \in 1..Len(brandedFile.val) :
            (\A d \in DocsOf(brandedFile.val[k]) :
                 Len(d) >= 2 /\ d[1] = ZodMarker /\ d[2] \in {"string", "number"})
                => /\ BaseExprsOf(brandedFile.val[k]) # {}
                   /\ \A e \in BaseExprsOf(brandedFile.val[k]) :
                         StartsWith(e, brandedFile.val[k].chain)

----------------------------------------------------------------------------
(* C30: the nullability of an overridden field *)

\* which of null and an absent value an expression of the base schema accepts: .nullish()
\* takes both, .nullable() null, .optional() an absent value
BaseNullability(e) ==
    (IF CallCount(e, "nullish") > 0 THEN {"null", "absent"} ELSE {})
        \cup (IF CallCount(e, "nullable") > 0 THEN {"null"} ELSE {})
        \cup (IF CallCount(e, "optional") > 0 THEN {"absent"} ELSE {})

\* what is accepted after the calls of an override: .unwrap() takes the outer wrapper
\* off, the transforms of lines 51 and 66-68 start from z.number() or z.bigint() and take
\* neither null nor an absent value, the cast starts from z.any(), .nullable() adds null
RECURSIVE AfterCalls(_, _)
AfterCalls(accepted, calls) ==
    IF calls = <<>> THEN accepted
    ELSE AfterCalls(
            CASE Head(calls) = "unwrap" ->
                    IF "absent" \in accepted THEN accepted \ {"absent"} ELSE {}
              [] Head(calls) = "pipe(transform)" -> {}
              [] Head(calls) = "pipe(cast)" -> accepted
              [] Head(calls) = "nullable" -> accepted \cup {"null"},
            Tail(calls))

\* the expressions of the base schema of model i for a key
BaseExprsOfKey(i, key) ==
    UNION {{x.expr : x \in {y \in zodSchemas[k].fields : y.key = key}} :
              k \in {j \in 1..Len(zodSchemas) : zodSchemas[j].modelName = datamodel[i].name}}

\* the overrides of the layers of model i, each with the required flag of its field
LayerOverrides(i) ==
    UNION {{[override |-> o, isRequired |-> datamodel[i].fields[k].isRequired] :
               k \in {j \in 1..Len(datamodel[i].fields) :
                         normalizeCase(DbOrName(datamodel[i].fields[j]), runConfig) = o.name}} :
              o \in UNION {LayerSchema(layerFiles[i], layer).overrides :
                              layer \in {"Runtime", "API"}}}

\* C30: an overridden field, branded or not, accepts null and an absent value exactly when
\* the expression of the base schema does
C30_OverrideKeepsNullability ==
    \A i \in 1..Len(datamodel) :
        (LayerFileOf(i) /\ zodSchemas # <<>>) =>
            \A x \in LayerOverrides(i) :
                \A e \in BaseExprsOfKey(i, x.override.name) :
                    AfterCalls(BaseNullability(e), x.override.expr.calls) = BaseNullability(e)

\* C30 for required fields
C30_RequiredOverrideKeepsNullability ==
    \A i \in 1..Len(datamodel) :
        (LayerFileOf(i) /\ zodSchemas # <<>>) =>
            \A x \in LayerOverrides(i) :
                x.isRequired =>
                    /\ BaseExprsOfKey(i, x.override.name) # {}
                    /\ \A e \in BaseExprsOfKey(i, x.override.name) :
                          AfterCalls(BaseNullability(e), x.override.expr.calls)
                              = BaseNullability(e)

----------------------------------------------------------------------------
(* C8 *)

\* the '/' at position j is not escaped by a backslash before it
UnescapedSlash(a, j) == a[j] = "/" /\ (j = 1 \/ a[j - 1] # BSL)

\* position i lies inside a regex literal: an odd number of unescaped '/' up to i
InsideRegex(a, i) == Cardinality({j \in 1..i : UnescapedSlash(a, j)}) % 2 = 1

\* the parenthesis depth after position i, counting the parentheses outside regex literals
DepthAt(a, i) ==
    Cardinality({j \in 1..i : a[j] = "(" /\ ~InsideRegex(a, j)})
        - Cardinality({j \in 1..i : a[j] = ")" /\ ~InsideRegex(a, j)})

\* the '.' that separate segments
Separators(a) == {i \in 1..Len(a) : a[i] = "." /\ ~InsideRegex(a, i) /\ DepthAt(a, i) = 0}

\* the non-empty pieces of a between the positions of S, in order
PiecesBetween(a, S) ==
    LET B == S \cup {0, Len(a) + 1}
        Starts == {b \in B : b <= Len(a) /\ (b + 1) \notin B}
        NextB(b) == CHOOSE c \in B : c > b /\ \A d \in B : d > b => c <= d
        Nth(k) == CHOOSE b \in Starts : Cardinality({c \in Starts : c < b}) = k - 1
    IN  [k \in 1..Cardinality(Starts) |-> SubSeq(a, Nth(k) + 1, NextB(Nth(k)) - 1)]

\* C8: the chain is cut exactly at the '.' that are at parenthesis depth 0 and outside
\* a regex literal delimited by unescaped '/' (a '.' inside /.../ separates nothing),
\* and the chain string.regex(/a.b/, "msg") has exactly two segments.
C8_RegexSafeSplit ==
    (pcParse \in {"process", "done"} /\ ZodMatch(documentation).some) =>
        /\ parts = PiecesBetween(ZodMatch(documentation).val,
                                 Separators(ZodMatch(documentation).val))
        /\ (ZodMatch(documentation).val = RegexExample => Len(parts) = 2)

\* a chain with a '.' between the two '/' of a regex literal, cut into two segments
C8_Witness ==
    /\ pcParse = "process"
    /\ LET a == ZodMatch(documentation).val
       IN  /\ \E i, j, k \in 1..Len(a) :
                 /\ i < j /\ j < k
                 /\ UnescapedSlash(a, i) /\ UnescapedSlash(a, k)
                 /\ a[j] = "." /\ InsideRegex(a, j)
           /\ Separators(a) # {}
           /\ Len(parts) = 2

----------------------------------------------------------------------------
(* C9 *)

\* C9: the parser returns null or an annotation record for every documentation, and
\* each segment that is neither name nor name(args) is one entry of validators, verbatim.
C9_NeverThrows ==
    pcParse = "done" =>
        /\ zodResult.kind \in {"null", "annotation"}
        /\ zodResult.kind = "annotation" =>
              \A k \in 1..Len(parts) :
                  ~ValidatorMatch(parts[k]).matched =>
                      Cardinality({j \in 1..Len(zodResult.validators) :
                                      zodResult.validators[j] = parts[k]})
                          = Cardinality({j \in 1..Len(parts) : parts[j] = parts[k]})

\* a documentation with a malformed segment has been parsed
C9_Witness ==
    /\ pcParse = "done"
    /\ zodResult.kind = "annotation"
    /\ \E k \in 1..Len(parts) : ~ValidatorMatch(parts[k]).matched

====
